---- MODULE Spec2Model ----
(***************************************************************************)
(* AI-Job-Scanner: the ingest -> classify -> route -> outbox pipeline.     *)
(*                                                                         *)
(* The module holds one state machine per component, each with its own     *)
(* specification over the shared variables:                                *)
(*   SpecIngest  - MessageIngestor.ingest_source over the cursor and       *)
(*                 message tables of storage/sqlite.py                     *)
(*   SpecOutbox  - OutboxManager called directly: create_entry,            *)
(*                 update_entry and reconstruction over the ledger         *)
(*   SpecSender  - EmailSender: construction and send_email                *)
(*   SpecLoop    - process_pending_sends, pass after pass, over message    *)
(*                 dicts with and without the "tg_chat_id" key             *)
(***************************************************************************)
EXTENDS Integers, Sequences, FiniteSets, TLC

NULL == "None"

\* ------------------------------------------------------------------ bounds
\* Highest message id the channel of source s1 holds.
MaxMsgId == 2

\* ingest_source's limit argument: at most this many messages are fetched by
\* one pass.
Limit == 2

Sources == {"s1", "s2"}

\* The channel of s holds the message ids 1..ChannelSize(s); the second
\* source is kept to one message.
ChannelSize(s) == IF s = "s1" THEN MaxMsgId ELSE 1

\* msg.text as fetched: "" is a media-only message, "code" carries a login
\* code, "job" is ordinary text.  A message may be edited between two
\* fetches, so each fetch draws the text anew.
FetchedTexts == {"", "job", "code"}

Max(S) == CHOOSE x \in S : \A y \in S : y <= x


\* ================================================================ state
VARIABLES
    cursors,      \* ingestion_cursors: source_id -> NoCursor or a cursor row
    messages      \* telegram_messages: <<source_id, tg_message_id>> -> the
                  \* rows stored under that key, oldest first

\* ------------------------------------------------------- ingest_source
VARIABLES
    ipc,          \* "idle" | "loop": where ingest_source stands
    isrc,         \* source_config["source_id"] of the pass
    idry,         \* dry_run
    ibatch,       \* messages: the fetched batch, in chronological order
    iidx,         \* index of the next message of the batch
    iresult,      \* the result dict of the pass
    ifailed,      \* ids of the batch whose insert raised
    ilastInsert,  \* the last insert_message_if_new call and what it returned
    iend          \* how the last ingest_source call ended: "returned" (its
                  \* result dict), "raised" (an exception to the caller),
                  \* "none" while it runs or when the process was stopped

\* ---------------------------------------------------------- ingest_all
VARIABLES
    apc,          \* "idle" | "loop" | "source" | "returned" | "raised"
    aqueue,       \* the sources "for source in sources" has not reached yet
    adry,         \* dry_run
    aresults      \* results

\* ------------------------------------ route_message, select_email, classify
VARIABLES
    rcall,        \* the last call of a routing function and how it ended
    ccall,        \* the last call of classify and its ClassificationResult
    ocall         \* the last read of the ledger and how it ended

\* ------------------------------------------------------- OutboxManager
VARIABLES
    ledger,        \* every row of every outbox_*.jsonl, in the order written;
                   \* row.file is the day of the partition that holds it
    today,         \* the day OutboxManager.current_file was named for
    dedupe_cache,  \* OutboxManager.dedupe_cache
    uuids          \* how many uuid4 values have been drawn

\* --------------------------------------------------------- EmailSender
VARIABLES
    envApply,      \* the APPLY_ENABLED setting of the process environment
    ctorApply,     \* the apply_enabled argument EmailSender was built with
    apply_enabled, \* EmailSender.apply_enabled
    sent_count,    \* EmailSender.sent_count
    lastSend,      \* the last send_email call: its dry_run and how it ended
    lastDelay,     \* "none": this sender opened no SMTP session yet; "slept":
                   \* time.sleep followed its last session; "due": none did
    transport_log, \* one element per smtplib.SMTP session send_email opened
    sessions       \* the smtplib.SMTP sessions this EmailSender has opened

\* ----------------------------------------------- process_pending_sends
VARIABLES
    ppc,           \* "idle" | "loop" | "send" | "update": where the pass stands
    pmessages,     \* messages: the dicts the loop runs over
    pidx,          \* index of the message the loop is at
    psend,         \* send_mode
    pdry,          \* dry_run
    pstats,        \* stats
    pentry,        \* outbox_entry of the message being sent
    msgHasChatId   \* whether the dicts of messages carry "tg_chat_id"

\* ------------------------------------------------------- classify_batch
VARIABLES
    classifications, \* message_classifications, in rowid order
    crelease,      \* the release installed: CLASSIFIER_VERSION and the
                   \* verdict its classify gives each stored text
    bpc,           \* "idle" | "loop" | "mark": where classify_batch stands
    bmessages,     \* messages: the dicts the loop runs over
    bidx,          \* index of the message the loop is at
    bdry,          \* dry_run
    bresults,      \* self.results
    bresult        \* result: the ClassificationResult of the current message

\* ------------------------------------- two processes in the route/send pass
VARIABLES
    qpc,           \* per process: "idle" | "loop" | "send" | "done"
    qcache,        \* per process: the dedupe_cache of its OutboxManager
    qmessages,     \* per process: messages
    qidx,          \* per process: index of the message its loop is at
    qentry,        \* per process: outbox_entry of the message being sent
    qsent          \* per process: sent_count of its EmailSender

storeVars == <<cursors, messages>>
batchVars ==
    <<classifications, crelease, bpc, bmessages, bidx, bdry, bresults,
      bresult>>
raceVars == <<qpc, qcache, qmessages, qidx, qentry, qsent>>
ingestVars ==
    <<ipc, isrc, idry, ibatch, iidx, iresult, ifailed, ilastInsert, iend>>
outboxVars == <<ledger, today, dedupe_cache, uuids>>
senderVars ==
    <<envApply, ctorApply, apply_enabled, sent_count, lastSend, lastDelay,
      transport_log, sessions>>
passVars == <<ppc, pmessages, pidx, psend, pdry, pstats, pentry, msgHasChatId>>
allVars == <<apc, aqueue, adry, aresults>>
callVars == <<rcall, ccall, ocall>>

\* What each component leaves alone.
notIngestVars ==
    <<outboxVars, senderVars, passVars, allVars, callVars, batchVars,
      raceVars>>
notOutboxVars ==
    <<storeVars, ingestVars, senderVars, passVars, allVars, callVars,
      batchVars, raceVars>>
notSenderVars ==
    <<storeVars, ingestVars, outboxVars, passVars, allVars, callVars,
      batchVars, raceVars>>

notPassVars ==
    <<storeVars, ingestVars, allVars, callVars, batchVars, raceVars>>

vars ==
    <<storeVars, ingestVars, outboxVars, senderVars, passVars, allVars,
      callVars, batchVars, raceVars>>

\* ---------------------------------------------------------------- sqlite
\* get_cursor answers None for a source without a row.
NoCursor == [found |-> FALSE]

get_cursor(cur, source_id) == cur[source_id]

\* INSERT ... ON CONFLICT (source_id) DO UPDATE: every column is overwritten
\* with the value passed in.
upsert_cursor(cur, source_id, message_id, status, error) ==
    [cur EXCEPT ![source_id] = [found |-> TRUE,
                                last_message_id |-> message_id,
                                last_status |-> status,
                                last_error |-> error]]

MsgKeys == {<<s, i>> : s \in Sources, i \in 1..MaxMsgId}

KeyStored(tbl, source_id, message_id) ==
    Len(tbl[<<source_id, message_id>>]) > 0

\* is_ai_relevant and ai_relevance_score of a row not classified yet (NULL).
NoFlag == 0 - 1

\* entity.id of the channel a source resolves to: the two configured
\* sources name the same channel.
ChatOf(source_id) == 100

NewRow(source_id, message_id, text) ==
    [source_id |-> source_id, tg_chat_id |-> ChatOf(source_id),
     tg_message_id |-> message_id, text |-> text,
     processed_status |-> "pending",
     permalink |-> "link",
     is_ai_relevant |-> NoFlag, ai_relevance_score |-> NoFlag]

\* The plain INSERT without the UNIQUE(source_id, tg_message_id) constraint.
insert_message_always(tbl, source_id, message_id, text) ==
    [tbl |-> [tbl EXCEPT ![<<source_id, message_id>>] =
                  Append(@, NewRow(source_id, message_id, text))],
     ret |-> TRUE]

\* INSERT under UNIQUE(source_id, tg_message_id): the IntegrityError of an
\* existing key is caught and answered with False.
insert_message_if_new(tbl, source_id, message_id, text) ==
    IF KeyStored(tbl, source_id, message_id)
    THEN [tbl |-> tbl, ret |-> FALSE]
    ELSE [tbl |-> [tbl EXCEPT ![<<source_id, message_id>>] =
                       Append(@, NewRow(source_id, message_id, text))],
          ret |-> TRUE]

\* ---------------------------------------------------------------- ingest
\* sanitize_text: a text carrying a login code is stored redacted.
sanitize_text(text) == IF text = "code" THEN "redacted" ELSE text

\* result["high_water_mark"] before the pass sets it (None).
NoMark == 0 - 1

EmptyResult ==
    [fetched |-> 0, new_inserted |-> 0, skipped |-> 0, errors |-> 0,
     high_water_mark |-> NoMark, error_message |-> NULL]

NoInsert == [called |-> FALSE]

\* iter_messages(entity, limit, min_id, reverse=True): the ids above min_id
\* the channel holds, oldest first, at most limit of them.
FetchIds(s, min_id) ==
    {i \in 1..ChannelSize(s) : i > min_id /\ i <= min_id + Limit}

Batches(s, min_id) ==
    LET ids == FetchIds(s, min_id)
        n == Cardinality(ids)
    IN {b \in [1..n -> [id : ids, text : FetchedTexts]] :
            \A k \in 1..n : b[k].id = min_id + k}

\* last_message_id as ingest_source reads it (0 for a dry run or no cursor).
ReadCursorId(s, dry) ==
    IF dry \/ get_cursor(cursors, s) = NoCursor THEN 0
    ELSE get_cursor(cursors, s).last_message_id

\* ingest_source up to the fetch, when the fetch returns messages.
IngestFetchBody(s, dry) ==
    /\ ipc = "idle"
    /\ \E b \in Batches(s, ReadCursorId(s, dry)) :
          /\ Len(b) > 0
          /\ ibatch' = b
          /\ iresult' = [EmptyResult EXCEPT !.fetched = Len(b)]
    /\ ipc' = "loop"
    /\ isrc' = s
    /\ idry' = dry
    /\ iidx' = 1
    /\ ifailed' = {}
    /\ ilastInsert' = NoInsert
    /\ iend' = "none"
    /\ UNCHANGED storeVars

IngestFetch(s, dry) == IngestFetchBody(s, dry) /\ UNCHANGED notIngestVars

\* ingest_source when the fetch returns nothing: the cursor is rewritten
\* with the id that was read.
IngestEmptyBody(s, dry) ==
    /\ ipc = "idle"
    /\ FetchIds(s, ReadCursorId(s, dry)) = {}
    /\ ipc' = "idle"
    /\ isrc' = s
    /\ idry' = dry
    /\ ibatch' = <<>>
    /\ iidx' = 1
    /\ ifailed' = {}
    /\ ilastInsert' = NoInsert
    /\ iresult' = [EmptyResult EXCEPT
                       !.high_water_mark = ReadCursorId(s, dry)]
    /\ cursors' = IF dry THEN cursors
                  ELSE upsert_cursor(cursors, s, ReadCursorId(s, dry),
                                     "success", NULL)
    /\ iend' = "returned"
    /\ UNCHANGED messages

IngestEmpty(s, dry) == IngestEmptyBody(s, dry) /\ UNCHANGED notIngestVars

\* What get_cursor, _resolve_entity or iter_messages raises: Telethon's
\* FloodWaitError with its e.seconds, or any other exception.
WaitSeconds == {30, 60}

Exceptions ==
    {[type |-> "FloodWaitError", seconds |-> w] : w \in WaitSeconds}
    \cup {[type |-> "Exception", seconds |-> 0]}

\* f"FloodWaitError: {wait_time}s" in the first except branch, str(e) in
\* the second.
ErrorText(e) ==
    CASE e.type = "FloodWaitError" /\ e.seconds = 30 -> "FloodWaitError: 30s"
      [] e.type = "FloodWaitError" /\ e.seconds = 60 -> "FloodWaitError: 60s"
      [] OTHER -> "error"

\* Every except branch ending in "return result".
RaiseEndReturned(e) == "returned"

\* The FloodWaitError branch ends in "raise", the other in "return result".
RaiseEnd(e) == IF e.type = "FloodWaitError" THEN "raised" ELSE "returned"

\* ingest_source when get_cursor, _resolve_entity or iter_messages raises:
\* the cursor is written with id 0 and status 'failed', nothing is slept
\* and nothing is fetched again.
IngestRaiseBody(s, dry, e) ==
    /\ ipc = "idle"
    /\ ipc' = "idle"
    /\ isrc' = s
    /\ idry' = dry
    /\ ibatch' = <<>>
    /\ iidx' = 1
    /\ ifailed' = {}
    /\ ilastInsert' = NoInsert
    /\ iresult' = [EmptyResult EXCEPT
                       !.error_message = ErrorText(e),
                       !.errors = IF e.type = "FloodWaitError" THEN 0 ELSE 1]
    /\ cursors' = IF dry THEN cursors
                  ELSE upsert_cursor(cursors, s, 0, "failed", ErrorText(e))
    /\ iend' = RaiseEnd(e)
    /\ UNCHANGED messages

IngestRaise(s, dry, e) == IngestRaiseBody(s, dry, e) /\ UNCHANGED notIngestVars

\* One turn of "for msg in messages": fault is an exception of the insert
\* other than the uniqueness conflict (the database cannot be written).
IngestMessageBody(fault) ==
    /\ ipc = "loop"
    /\ iidx <= Len(ibatch)
    /\ LET msg == ibatch[iidx]
           ins == insert_message_if_new(messages, isrc, msg.id,
                                        sanitize_text(msg.text))
       IN IF msg.text = ""
          THEN /\ iresult' = [iresult EXCEPT !.skipped = @ + 1]
               /\ ilastInsert' = NoInsert
               /\ UNCHANGED <<messages, ifailed>>
          ELSE IF idry
          THEN /\ iresult' = [iresult EXCEPT !.new_inserted = @ + 1]
               /\ ilastInsert' = NoInsert
               /\ UNCHANGED <<messages, ifailed>>
          ELSE IF fault
          THEN /\ iresult' = [iresult EXCEPT !.errors = @ + 1]
               /\ ifailed' = ifailed \cup {msg.id}
               /\ ilastInsert' = [called |-> TRUE, raised |-> TRUE,
                                  ret |-> FALSE]
               /\ UNCHANGED messages
          ELSE /\ messages' = ins.tbl
               /\ iresult' = IF ins.ret
                             THEN [iresult EXCEPT !.new_inserted = @ + 1]
                             ELSE [iresult EXCEPT !.skipped = @ + 1]
               /\ ilastInsert' = [called |-> TRUE, raised |-> FALSE,
                                  ret |-> ins.ret]
               /\ UNCHANGED ifailed
    /\ iidx' = iidx + 1
    /\ UNCHANGED <<cursors, ipc, isrc, idry, ibatch, iend>>

IngestMessage(fault) == IngestMessageBody(fault) /\ UNCHANGED notIngestVars

\* high_water_mark taken from the first message of the batch.
HighWaterMarkOfFirst(batch) == batch[1].id

\* high_water_mark = max(msg.id for msg in messages), over the whole batch.
HighWaterMark(batch) == Max({batch[k].id : k \in 1..Len(batch)})

\* After the loop: the cursor is written with the high water mark and the
\* result is returned.
IngestFinishBody ==
    /\ ipc = "loop"
    /\ iidx > Len(ibatch)
    /\ ipc' = "idle"
    /\ iresult' = [iresult EXCEPT !.high_water_mark = HighWaterMark(ibatch)]
    /\ cursors' = IF idry THEN cursors
                  ELSE upsert_cursor(cursors, isrc, HighWaterMark(ibatch),
                                     "success", NULL)
    /\ ibatch' = <<>>
    /\ iidx' = 1
    /\ ifailed' = {}
    /\ ilastInsert' = NoInsert
    /\ iend' = "returned"
    /\ UNCHANGED <<messages, isrc, idry>>

IngestFinish == IngestFinishBody /\ UNCHANGED notIngestVars

\* The process is interrupted between two messages of the batch: what was
\* committed stays, the pass is gone.
IngestInterruptBody ==
    /\ ipc = "loop"
    /\ ipc' = "idle"
    /\ ibatch' = <<>>
    /\ iidx' = 1
    /\ ifailed' = {}
    /\ ilastInsert' = NoInsert
    /\ iresult' = EmptyResult
    /\ iend' = "none"
    /\ UNCHANGED <<storeVars, isrc, idry>>

IngestInterrupt == IngestInterruptBody /\ UNCHANGED notIngestVars

\* ------------------------------------------------------------ ingest_all
\* The sources of the configuration, in file order, all enabled and joined.
SourceList == <<"s1", "s2">>

\* The only_source filter.
FilterSources(sources, only_source) ==
    IF only_source = NULL THEN sources
    ELSE SelectSeq(sources, LAMBDA s : s = only_source)

notAllVars ==
    <<outboxVars, senderVars, passVars, callVars, batchVars, raceVars>>

\* ingest_all up to its loop.
AllStart(dry_run, only_source) ==
    /\ apc \in {"idle", "returned", "raised"}
    /\ ipc = "idle"
    /\ apc' = "loop"
    /\ aqueue' = FilterSources(SourceList, only_source)
    /\ adry' = dry_run
    /\ aresults' = <<>>
    /\ UNCHANGED <<storeVars, ingestVars, notAllVars>>

\* "result = await self.ingest_source(source, ...)" for the next source,
\* when its fetch returns messages: ingest_source enters its own loop.
AllFetch ==
    /\ apc = "loop"
    /\ aqueue # <<>>
    /\ IngestFetchBody(Head(aqueue), adry)
    /\ apc' = "source"
    /\ UNCHANGED <<aqueue, adry, aresults, notAllVars>>

\* The same when the fetch returns nothing: results.append(result).
AllEmpty ==
    /\ apc = "loop"
    /\ aqueue # <<>>
    /\ IngestEmptyBody(Head(aqueue), adry)
    /\ aresults' = Append(aresults, iresult')
    /\ aqueue' = Tail(aqueue)
    /\ UNCHANGED <<apc, adry, notAllVars>>

\* The same when ingest_source fails before its loop. The call stands in
\* no try block: what ingest_source re-raises leaves ingest_all at once,
\* with results and the sources not reached yet; what it returns is
\* appended like any result.
AllRaise(e) ==
    /\ apc = "loop"
    /\ aqueue # <<>>
    /\ IngestRaiseBody(Head(aqueue), adry, e)
    /\ IF iend' = "raised"
       THEN /\ apc' = "raised"
            /\ UNCHANGED <<aqueue, aresults>>
       ELSE /\ aresults' = Append(aresults, iresult')
            /\ aqueue' = Tail(aqueue)
            /\ UNCHANGED apc
    /\ UNCHANGED <<adry, notAllVars>>

\* One message of the source being ingested.
AllMessage(fault) ==
    /\ apc = "source"
    /\ IngestMessageBody(fault)
    /\ UNCHANGED <<allVars, notAllVars>>

\* ingest_source returns after its loop: results.append(result).
AllFinish ==
    /\ apc = "source"
    /\ IngestFinishBody
    /\ aresults' = Append(aresults, iresult')
    /\ aqueue' = Tail(aqueue)
    /\ apc' = "loop"
    /\ UNCHANGED <<adry, notAllVars>>

\* "return results" once the loop has run out of sources.
AllReturn ==
    /\ apc = "loop"
    /\ aqueue = <<>>
    /\ apc' = "returned"
    /\ UNCHANGED <<aqueue, adry, aresults, storeVars, ingestVars, notAllVars>>

InitAll ==
    /\ apc = "idle"
    /\ aqueue = <<>>
    /\ adry = FALSE
    /\ aresults = <<>>

InitStore ==
    /\ cursors = [s \in Sources |-> NoCursor]
    /\ messages = [k \in MsgKeys |-> <<>>]

InitIngest ==
    /\ ipc = "idle"
    /\ isrc = "s1"
    /\ idry = FALSE
    /\ ibatch = <<>>
    /\ iidx = 1
    /\ iresult = EmptyResult
    /\ ifailed = {}
    /\ ilastInsert = NoInsert
    /\ iend = "none"

\* =============================================================== outbox
\* Ledger rows the model lets exist at once.
MaxRows == 3

\* The calendar days the run spans: the ledger has one partition
\* outbox_YYYYMMDD.jsonl per day.
Days == {1, 2}


\* Python truthiness of an Optional[str]: None and "" are false.
Truthy(x) == x # NULL /\ x # ""

\* dedupe_key = None
NoKey == <<>>

\* f"{tg_chat_id}:{tg_message_id}:{selected_email}": the ids are integers and
\* an extracted address holds no ':', so the string determines the triple.
DedupeKey(chat_id, message_id, email) == <<chat_id, message_id, email>>

\* str(uuid.uuid4()): a value no earlier call returned.
NewOutboxId(n) == n + 1

RowsOf(led) == {led[k] : k \in 1..Len(led)}

\* _load_dedupe_cache reading only the rows whose status is still draft.
load_dedupe_cache_drafts(led) ==
    {r.dedupe_key : r \in {x \in RowsOf(led) :
                               x.dedupe_key # NoKey /\ x.status = "draft"}}

\* _load_dedupe_cache: the dedupe_key of every row of every partition.
load_dedupe_cache(led) ==
    {r.dedupe_key : r \in {x \in RowsOf(led) : x.dedupe_key # NoKey}}

\* _append_entry opening the partition with mode 'w': the rows the current
\* partition held are lost.
append_entry_truncating(led, entry) ==
    SelectSeq(led, LAMBDA r : r.file # entry.file) \o <<entry>>

\* _append_entry: one line more at the end of the current partition.
append_entry(led, entry) == Append(led, entry)

\* is_duplicate answering False whatever the cache holds.
is_duplicate_never(cache, dedupe_key) == FALSE

is_duplicate(cache, dedupe_key) == dedupe_key \in cache

\* create_entry deciding the status on selected_email alone.
CreateStatusByEmail(a) ==
    IF Truthy(a.selected_email) THEN "draft" ELSE "skipped"

CreateStatus(a) ==
    IF Truthy(a.skip_reason) THEN "skipped"
    ELSE IF Truthy(a.selected_email) THEN "draft"
    ELSE "skipped"

CreateSkipReason(a) ==
    IF ~Truthy(a.skip_reason) /\ ~Truthy(a.selected_email)
    THEN "no_email_found"
    ELSE a.skip_reason

CreateDedupeKey(a) ==
    IF Truthy(a.selected_email)
    THEN DedupeKey(a.tg_chat_id, a.tg_message_id, a.selected_email)
    ELSE NoKey

\* The entry dict create_entry builds from its arguments a; n uuid4 values
\* were drawn before, day names the current partition.
NewEntry(a, n, day) ==
    [outbox_id |-> NewOutboxId(n),
     profile_id |-> a.profile_id,
     tg_chat_id |-> a.tg_chat_id,
     tg_message_id |-> a.tg_message_id,
     selected_email |-> a.selected_email,
     subject |-> a.subject,
     status |-> CreateStatus(a),
     dedupe_key |-> CreateDedupeKey(a),
     skip_reason |-> CreateSkipReason(a),
     sent_at |-> NULL,
     last_error |-> NULL,
     smtp_response |-> NULL,
     attempt_count |-> 0,
     file |-> day]

\* create_entry: the new ledger and the new dedupe cache.
create_entry(led, cache, n, day, a) ==
    LET entry == NewEntry(a, n, day)
    IN [ledger |-> append_entry(led, entry),
        cache |-> IF entry.dedupe_key # NoKey
                  THEN cache \cup {entry.dedupe_key} ELSE cache,
        entry |-> entry]

\* The partitions that hold a row of outbox_id.
FilesWith(led, outbox_id) ==
    {r.file : r \in {x \in RowsOf(led) : x.outbox_id = outbox_id}}

\* update_entry's scan: glob yields the partitions in no fixed order; f is
\* the first one it yields that holds outbox_id, and the scan stops at the
\* first row of that partition with the id.
OriginalEntry(led, outbox_id, f) ==
    LET k == CHOOSE i \in 1..Len(led) :
                 /\ led[i].outbox_id = outbox_id
                 /\ led[i].file = f
                 /\ \A j \in 1..(i - 1) :
                        ~(led[j].outbox_id = outbox_id /\ led[j].file = f)
    IN led[k]

\* update_entry once the original entry is found: a copy with the new
\* status is appended to the current partition.
update_entry(led, day, outbox_id, f, status, last_error, smtp_response) ==
    LET original == OriginalEntry(led, outbox_id, f)
    IN append_entry(led, [original EXCEPT
                              !.status = status,
                              !.sent_at = "now",
                              !.last_error = last_error,
                              !.smtp_response = smtp_response,
                              !.attempt_count = original.attempt_count + 1,
                              !.file = day])

\* ------------------------------------------------ OutboxManager reads
Statuses == {"draft", "pending", "sent", "failed", "skipped"}

\* The lines of the ledger with the given status (and profile).
StatusLines(led, status) == {i \in 1..Len(led) : led[i].status = status}

ProfileLines(led, profile_id) ==
    {i \in 1..Len(led) : led[i].profile_id = profile_id}

\* get_pending_entries: every line whose status is draft or pending.
get_pending_entries(led) ==
    SelectSeq(led, LAMBDA r : r.status \in {"draft", "pending"})

\* get_statistics: total and the status counters, one count per line.
get_statistics(led) ==
    [k \in Statuses \cup {"total"} |->
        IF k = "total" THEN Len(led)
        ELSE Cardinality(StatusLines(led, k))]

\* get_statistics_by_profile: the same counters per profile_id of a line.
get_statistics_by_profile(led) ==
    [p \in {r.profile_id : r \in RowsOf(led)} |->
        [k \in Statuses \cup {"total"} |->
            IF k = "total" THEN Cardinality(ProfileLines(led, p))
            ELSE Cardinality(ProfileLines(led, p) \cap StatusLines(led, k))]]

\* ------------------------------------------- OutboxManager, called directly
ChatIds == {100}
Emails == {"a@x"}

\* The arguments a caller of create_entry passes (the fields the entry only
\* carries along are left out).
CreateArgs ==
    [profile_id : {"p1", NULL},
     tg_chat_id : ChatIds,
     tg_message_id : 1..2,
     selected_email : Emails \cup {NULL},
     subject : {NULL},
     skip_reason : {NULL, "duplicate"}]

OutboxCreate(a) ==
    /\ Len(ledger) < MaxRows
    /\ LET c == create_entry(ledger, dedupe_cache, uuids, today, a)
       IN /\ ledger' = c.ledger
          /\ dedupe_cache' = c.cache
    /\ uuids' = uuids + 1
    /\ UNCHANGED <<today, notOutboxVars>>

OutboxUpdate(outbox_id, status, last_error, smtp_response) ==
    /\ Len(ledger) < MaxRows
    /\ \E f \in FilesWith(ledger, outbox_id) :
          ledger' = update_entry(ledger, today, outbox_id, f, status,
                                 last_error, smtp_response)
    /\ UNCHANGED <<today, dedupe_cache, uuids, notOutboxVars>>

\* update_entry of an id no partition holds: ValueError.
OutboxUpdateMissing(outbox_id) ==
    /\ FilesWith(ledger, outbox_id) = {}
    /\ UNCHANGED <<ledger, today, dedupe_cache, uuids, notOutboxVars>>

\* The process ends and a new OutboxManager is constructed, the same day or
\* a later one.
OutboxRestart(day) ==
    /\ day >= today
    /\ today' = day
    /\ dedupe_cache' = load_dedupe_cache(ledger)
    /\ UNCHANGED <<ledger, uuids, notOutboxVars>>

InitOutbox ==
    /\ ledger = <<>>
    /\ today = 1
    /\ dedupe_cache = load_dedupe_cache(<<>>)
    /\ uuids = 0

\* ========================================================== EmailSender
\* max_per_run of the sender.
MaxPerRun == 2

\* SMTP sessions the model lets one specification open.
MaxCalls == 3

\* A str is the sequence of its characters; the literals the code compares.
STR_true == <<"t", "r", "u", "e">>
STR_false == <<"f", "a", "l", "s", "e">>

\* The values APPLY_ENABLED is given: 'true', 'TRUE', 'True', 'false', '1',
\* '' and 'yes'.
EnvValues ==
    {STR_true, <<"T", "R", "U", "E">>, <<"T", "r", "u", "e">>, STR_false,
     <<"1">>, <<>>, <<"y", "e", "s">>}

\* os.environ without and with the key.
NoEnv == [set |-> FALSE]
EnvSet(v) == [set |-> TRUE, value |-> v]

\* os.getenv(key, default)
os_getenv(env, default) == IF env.set THEN env.value ELSE default

\* str.lower, over the characters EnvValues is written with.
LowerChar(c) ==
    CASE c = "T" -> "t" [] c = "R" -> "r" [] c = "U" -> "u" [] c = "E" -> "e"
      [] OTHER -> c

Lower(str) == [i \in DOMAIN str |-> LowerChar(str[i])]

\* The setting read with the default 'true'.
EnvApplyEnabledDefaultTrue(env) == Lower(os_getenv(env, STR_true)) = STR_true

\* os.getenv("APPLY_ENABLED", "false").lower() == "true"
EnvApplyEnabled(env) == Lower(os_getenv(env, STR_false)) = STR_true

\* EmailSender.__init__: apply_enabled is "None", "True" or "False".
EmailSenderInit(param, env) ==
    IF param = "None" THEN EnvApplyEnabled(env) ELSE param = "True"

\* validate_cv: what it finds at cv_path.
CvStates == {"pdf", "missing", "not_pdf"}

NoSend == [called |-> FALSE]

Raised(gate, kind, dry_run, cv, transport, count) ==
    [called |-> TRUE, dry_run |-> dry_run, cv |-> cv, gate |-> gate,
     raised |-> kind, success |-> FALSE, transport |-> transport,
     smtp_response |-> NULL, sent_count |-> count, slept |-> FALSE]

Returned(dry_run, cv, transport, smtp_response, count, slept) ==
    [called |-> TRUE, dry_run |-> dry_run, cv |-> cv, gate |-> 0,
     raised |-> NULL, success |-> TRUE, transport |-> transport,
     smtp_response |-> smtp_response, sent_count |-> count, slept |-> slept]

\* send_email with the rate gate left out.
send_email_unlimited(enabled, count, max_per_run, dry_run, cv, smtp_ok) ==
    IF ~enabled /\ ~dry_run
    THEN Raised(1, "SecurityError", dry_run, cv, FALSE, count)
    ELSE IF cv # "pdf"
    THEN Raised(2, "SecurityError", dry_run, cv, FALSE, count)
    ELSE IF dry_run THEN Returned(dry_run, cv, FALSE, NULL, count, FALSE)
    ELSE IF ~smtp_ok THEN Raised(0, "Exception", dry_run, cv, TRUE, count)
    ELSE Returned(dry_run, cv, TRUE, "{}", count + 1,
                  count + 1 < max_per_run)

\* send_email: the three gates, the dry-run return, then the SMTP session,
\* whose failure is re-raised. gate is the gate that raised, transport tells
\* whether the session was opened, sent_count is the counter after the
\* call, slept whether time.sleep ran.
send_email(enabled, count, max_per_run, dry_run, cv, smtp_ok) ==
    IF ~enabled /\ ~dry_run
    THEN Raised(1, "SecurityError", dry_run, cv, FALSE, count)
    ELSE IF cv # "pdf"
    THEN Raised(2, "SecurityError", dry_run, cv, FALSE, count)
    ELSE IF count >= max_per_run /\ ~dry_run
    THEN Raised(3, "SecurityError", dry_run, cv, FALSE, count)
    ELSE IF dry_run THEN Returned(dry_run, cv, FALSE, NULL, count, FALSE)
    ELSE IF ~smtp_ok THEN Raised(0, "Exception", dry_run, cv, TRUE, count)
    ELSE Returned(dry_run, cv, TRUE, "{}", count + 1,
                  count + 1 < max_per_run)

\* What a send_email call leaves of the delay between SMTP sessions.
NextDelay(delay, r) ==
    IF r.transport THEN (IF r.slept THEN "slept" ELSE "due") ELSE delay

\* EmailSender(outbox, apply_enabled=param) in an environment env.
SenderConstruct(param, env) ==
    /\ envApply' = env
    /\ ctorApply' = param
    /\ apply_enabled' = EmailSenderInit(param, env)
    /\ sent_count' = 0
    /\ lastSend' = NoSend
    /\ lastDelay' = "none"
    /\ sessions' = 0
    /\ UNCHANGED <<transport_log, notSenderVars>>

\* sender.send_email(to, subject, body, cv_path, dry_run)
SenderSend(to_email, dry_run, cv, smtp_ok) ==
    /\ Len(transport_log) < MaxCalls
    /\ LET r == send_email(apply_enabled, sent_count, MaxPerRun, dry_run, cv,
                           smtp_ok)
       IN /\ lastSend' = r
          /\ sent_count' = r.sent_count
          /\ lastDelay' = NextDelay(lastDelay, r)
          /\ sessions' = IF r.transport THEN sessions + 1 ELSE sessions
          /\ transport_log' =
                 IF r.transport
                 THEN Append(transport_log,
                             [to |-> to_email, dedupe_key |-> NoKey])
                 ELSE transport_log
    /\ UNCHANGED <<envApply, ctorApply, apply_enabled, notSenderVars>>

InitSender ==
    /\ envApply = NoEnv
    /\ ctorApply = "None"
    /\ apply_enabled = EmailSenderInit("None", NoEnv)
    /\ sent_count = 0
    /\ lastSend = NoSend
    /\ lastDelay = "none"
    /\ sessions = 0
    /\ transport_log = <<>>

\* ======================================================= route/send pass
\* The texts of the classified messages: what the keyword and the address
\* patterns find in each.
JobTexts ==
    {"python dev a@x", "python dev a@x b@x", "python dev", "chef a@x"}

\* The keywords re.search finds in text.lower() as whole words.
Words(text) ==
    CASE text \in {"python dev a@x", "python dev a@x b@x", "python dev"}
             -> {"python", "dev"}
      [] text = "chef a@x" -> {"chef"}
      [] OTHER -> {}

\* re.findall(email_pattern, text): the matches, left to right.
FindEmails(text) ==
    CASE text \in {"python dev a@x", "chef a@x"} -> <<"a@x">>
      [] text = "python dev a@x b@x" -> <<"a@x", "b@x">>
      [] OTHER -> <<>>

\* email.lower(): the addresses of JobTexts are written in lower case.
LowerEmail(email) == email

\* extract_emails: the matches without the ones whose lower-cased form was
\* seen before, order kept.
RECURSIVE UniqueEmails(_, _)
UniqueEmails(found, seen) ==
    IF found = <<>> THEN <<>>
    ELSE IF LowerEmail(Head(found)) \in seen
         THEN UniqueEmails(Tail(found), seen)
         ELSE <<Head(found)>> \o
              UniqueEmails(Tail(found), seen \cup {LowerEmail(Head(found))})

extract_emails(text) == UniqueEmails(FindEmails(text), {})

\* config/applicants.yaml: two profiles. Scores and thresholds are counted
\* in tenths, so +1.0 is 10, -1.5 is 15, the threshold 0.7 is 7 and the tie
\* margin 0.1 is 1.
Profiles ==
    [p1 |-> [keywords_positive |-> {"python"}, keywords_negative |-> {"chef"},
             threshold |-> 7, cv_path |-> "cv1.pdf",
             email_templates |-> <<"template1">>],
     p2 |-> [keywords_positive |-> {"java"}, keywords_negative |-> {},
             threshold |-> 7, cv_path |-> "cv2.pdf",
             email_templates |-> <<"template2">>]]

score_profile(text, profile) ==
    10 * Cardinality(profile.keywords_positive \cap Words(text))
    - 15 * Cardinality(profile.keywords_negative \cap Words(text))

\* route_message taking scores within 0.6 of each other for a tie.
route_message_wide_margin(text, profiles) ==
    LET scores == [pid \in DOMAIN profiles |->
                       score_profile(text, profiles[pid])]
        above_threshold ==
            {pid \in DOMAIN profiles : scores[pid] >= profiles[pid].threshold}
        top == Max({scores[pid] : pid \in above_threshold})
        winner_id == CHOOSE pid \in above_threshold : scores[pid] = top
        second == Max({scores[pid] : pid \in above_threshold \ {winner_id}})
    IN IF above_threshold = {}
       THEN IF DOMAIN profiles = {}
            THEN \* list(profiles.keys())[0] in the metadata of the branch
                 [raised |-> "IndexError", profile_id |-> NULL,
                  skip_reason |-> NULL]
            ELSE [raised |-> NULL, profile_id |-> NULL,
                  skip_reason |-> "no_match"]
       ELSE IF Cardinality(above_threshold) > 1 /\ top - second < 6
       THEN [raised |-> NULL, profile_id |-> NULL, skip_reason |-> "tie_close"]
       ELSE [raised |-> NULL, profile_id |-> winner_id, skip_reason |-> NULL]

route_message(text, profiles) ==
    LET scores == [pid \in DOMAIN profiles |->
                       score_profile(text, profiles[pid])]
        above_threshold ==
            {pid \in DOMAIN profiles : scores[pid] >= profiles[pid].threshold}
        top == Max({scores[pid] : pid \in above_threshold})
        winner_id == CHOOSE pid \in above_threshold : scores[pid] = top
        second == Max({scores[pid] : pid \in above_threshold \ {winner_id}})
    IN IF above_threshold = {}
       THEN IF DOMAIN profiles = {}
            THEN \* list(profiles.keys())[0] in the metadata of the branch
                 [raised |-> "IndexError", profile_id |-> NULL,
                  skip_reason |-> NULL]
            ELSE [raised |-> NULL, profile_id |-> NULL,
                  skip_reason |-> "no_match"]
       ELSE IF Cardinality(above_threshold) > 1 /\ top - second < 1
       THEN [raised |-> NULL, profile_id |-> NULL, skip_reason |-> "tie_close"]
       ELSE [raised |-> NULL, profile_id |-> winner_id, skip_reason |-> NULL]

\* select_template then render_template: str.replace(placeholder, None)
\* raises TypeError when the message has no permalink.
render_template(profile, source_link) ==
    IF source_link = NULL
    THEN [raised |-> "TypeError", subject |-> NULL]
    ELSE [raised |-> NULL, subject |-> "subject"]

\* The dict fetch_ai_relevant_messages builds from a row: the columns of
\* its SELECT, which tg_chat_id is not one of.
FetchedRow(r) ==
    [source_id |-> r.source_id, tg_message_id |-> r.tg_message_id,
     text |-> r.text, score |-> r.ai_relevance_score,
     permalink |-> r.permalink]

\* The dict the loop body reads: msg["tg_chat_id"] beside the fetched keys.
LoopRow(r) ==
    [source_id |-> r.source_id, tg_message_id |-> r.tg_message_id,
     text |-> r.text, score |-> r.ai_relevance_score,
     permalink |-> r.permalink, tg_chat_id |-> r.tg_chat_id]

\* The query without its WHERE clause: every stored row.
RelevantRowsAll(tbl) ==
    {tbl[k][1] : k \in {x \in DOMAIN tbl : Len(tbl[x]) > 0}}

\* WHERE is_ai_relevant = 1
RelevantRows(tbl) ==
    {tbl[k][1] : k \in {x \in DOMAIN tbl :
                            Len(tbl[x]) > 0 /\ tbl[x][1].is_ai_relevant = 1}}

\* ORDER BY ai_relevance_score DESC
OrderedRows(S) ==
    CHOOSE q \in [1..Cardinality(S) -> S] :
        /\ \A i, j \in DOMAIN q : i # j => q[i] # q[j]
        /\ \A i, j \in DOMAIN q :
               i < j => q[i].ai_relevance_score >= q[j].ai_relevance_score

fetch_ai_relevant_messages(tbl) ==
    LET q == OrderedRows(RelevantRows(tbl))
    IN [i \in DOMAIN q |-> FetchedRow(q[i])]

\* The same rows as dicts that carry tg_chat_id.
LoopMessages(tbl) ==
    LET q == OrderedRows(RelevantRows(tbl))
    IN [i \in DOMAIN q |-> LoopRow(q[i])]

HasKey(msg, key) == key \in DOMAIN msg

NoArgs == [skip_reason |-> "none"]
NoEntry == [outbox_id |-> 0]
ZeroStats == [processed |-> 0, sent |-> 0, skipped |-> 0, errors |-> 0]

EntryArgs(msg, profile_id, selected_email, subject, skip_reason) ==
    [profile_id |-> profile_id, tg_chat_id |-> msg.tg_chat_id,
     tg_message_id |-> msg.tg_message_id, selected_email |-> selected_email,
     subject |-> subject, skip_reason |-> skip_reason]

TurnRaise(kind, skipped) ==
    [raised |-> kind, skipped |-> skipped, create |-> FALSE, args |-> NoArgs,
     draft |-> FALSE]

TurnSkip(args) ==
    [raised |-> NULL, skipped |-> 1, create |-> TRUE, args |-> args,
     draft |-> FALSE]

\* One turn of the loop up to its create_entry call: what it raises, what
\* it adds to stats["skipped"], the entry it creates and whether that entry
\* is the draft to send. msg["tg_chat_id"] raises KeyError where the dict
\* has no such key, after the skip was counted in the first three branches.
Turn(msg, cache) ==
    LET emails == extract_emails(msg.text)
        routing_result == route_message(msg.text, Profiles)
        profile_id == routing_result.profile_id
        chat == HasKey(msg, "tg_chat_id")
        email == render_template(Profiles[profile_id], msg.permalink)
    IN IF routing_result.skip_reason # NULL
       THEN IF ~chat THEN TurnRaise("KeyError", 1)
            ELSE TurnSkip(EntryArgs(msg, NULL, NULL, NULL,
                                    routing_result.skip_reason))
       ELSE IF Len(emails) = 0
       THEN IF ~chat THEN TurnRaise("KeyError", 1)
            ELSE TurnSkip(EntryArgs(msg, profile_id, NULL, NULL,
                                    "no_email_found"))
       ELSE IF Len(emails) > 1
       THEN IF ~chat THEN TurnRaise("KeyError", 1)
            ELSE TurnSkip(EntryArgs(msg, profile_id, NULL, NULL,
                                    "multiple_emails_ambiguous"))
       ELSE IF ~chat THEN TurnRaise("KeyError", 0)
       ELSE IF is_duplicate(cache, DedupeKey(msg.tg_chat_id,
                                            msg.tg_message_id, emails[1]))
       THEN TurnSkip(EntryArgs(msg, profile_id, emails[1], NULL, "duplicate"))
       ELSE IF email.raised # NULL THEN TurnRaise(email.raised, 0)
       ELSE [raised |-> NULL, skipped |-> 0, create |-> TRUE,
             args |-> EntryArgs(msg, profile_id, emails[1], email.subject,
                                NULL),
             draft |-> TRUE]

\* A row after mark_message_classified.
ClassifiedRow(source_id, message_id, text, relevant, score, permalink) ==
    [NewRow(source_id, message_id, text) EXCEPT
         !.processed_status = "classified",
         !.is_ai_relevant = relevant,
         !.ai_relevance_score = score,
         !.permalink = permalink]

\* The second relevant message beside <<"s1", 1>>: the same message under
\* the other source, or another message of the first one.
SecondRows ==
    {ClassifiedRow("s2", 1, "python dev a@x", 1, 10, "link"),
     ClassifiedRow("s1", 2, "python dev a@x", 1, 10, "link"),
     ClassifiedRow("s1", 2, "python dev a@x", 1, 10, NULL),
     ClassifiedRow("s1", 2, "python dev a@x b@x", 1, 10, "link"),
     ClassifiedRow("s1", 2, "python dev", 1, 10, "link"),
     ClassifiedRow("s1", 2, "chef a@x", 1, 10, "link")}

\* telegram_messages after ingest and classify: two relevant messages, one
\* that is not and one that no classify pass has reached yet.
ClassifiedTable(second) ==
    [k \in MsgKeys |->
        IF k = <<"s1", 1>>
        THEN <<ClassifiedRow("s1", 1, "python dev a@x", 1, 20, "link")>>
        ELSE IF k = <<second.source_id, second.tg_message_id>>
        THEN <<second>>
        ELSE IF k \in {<<"s1", 2>>, <<"s2", 1>>}
        THEN <<ClassifiedRow(k[1], k[2], "python dev a@x", 0, 0, "link")>>
        ELSE IF k = <<"s2", 2>>
        THEN <<NewRow("s2", 2, "python dev a@x")>>
        ELSE <<>>]

\* Ledger rows the passes of one run may write.
MaxLoopRows == 5

\* The environments a pass is started in.
PassEnvs == {NoEnv, EnvSet(STR_true)}

\* process_pending_sends up to its loop: the managers are built, the
\* messages fetched.
PassStart(send_mode, dry_run, day, env) ==
    /\ ppc = "idle"
    /\ day >= today
    /\ today' = day
    /\ dedupe_cache' = load_dedupe_cache(ledger)
    /\ envApply' = env
    /\ ctorApply' = "None"
    /\ apply_enabled' = EmailSenderInit("None", env)
    /\ sent_count' = 0
    /\ lastSend' = NoSend
    /\ lastDelay' = "none"
    /\ sessions' = 0
    /\ pmessages' = IF msgHasChatId THEN LoopMessages(messages)
                    ELSE fetch_ai_relevant_messages(messages)
    /\ pidx' = 1
    /\ psend' = send_mode
    /\ pdry' = dry_run
    /\ pstats' = ZeroStats
    /\ pentry' = NoEntry
    /\ ppc' = "loop"
    /\ UNCHANGED <<ledger, uuids, transport_log, msgHasChatId,
                   notPassVars>>

\* One turn of the loop up to the send: the branch taken, its create_entry
\* and its counters.
PassTurn ==
    /\ ppc = "loop"
    /\ pidx <= Len(pmessages)
    /\ LET t == Turn(pmessages[pidx], dedupe_cache)
           c == create_entry(ledger, dedupe_cache, uuids, today, t.args)
           sending == t.draft /\ psend /\ ~pdry
       IN /\ t.create => Len(ledger) < MaxLoopRows
          /\ IF t.create
             THEN /\ ledger' = c.ledger
                  /\ dedupe_cache' = c.cache
                  /\ uuids' = uuids + 1
             ELSE UNCHANGED <<ledger, dedupe_cache, uuids>>
          /\ pstats' = [pstats EXCEPT
                 !.skipped = @ + t.skipped,
                 !.errors = @ + (IF t.raised # NULL THEN 1 ELSE 0),
                 !.processed = @ + (IF t.draft THEN 1 ELSE 0),
                 !.sent = @ + (IF t.draft /\ psend /\ pdry THEN 1 ELSE 0)]
          /\ pentry' = IF sending THEN c.entry ELSE NoEntry
          /\ ppc' = IF sending THEN "send" ELSE "loop"
          /\ pidx' = IF sending THEN pidx ELSE pidx + 1
    /\ UNCHANGED <<today, pmessages, psend, pdry, msgHasChatId, senderVars,
                   notPassVars>>

\* sender.send_email for the draft: a SecurityError marks the entry
\* skipped, any other exception leaves it as it is, a success is recorded
\* by the next step.
PassSend(cv, smtp_ok) ==
    /\ ppc = "send"
    /\ LET r == send_email(apply_enabled, sent_count, MaxPerRun, pdry, cv,
                           smtp_ok)
       IN /\ lastSend' = r
          /\ sent_count' = r.sent_count
          /\ lastDelay' = NextDelay(lastDelay, r)
          /\ sessions' = IF r.transport THEN sessions + 1 ELSE sessions
          /\ transport_log' =
                 IF r.transport
                 THEN Append(transport_log,
                             [to |-> pentry.selected_email,
                              dedupe_key |-> pentry.dedupe_key])
                 ELSE transport_log
          /\ IF r.raised = "SecurityError"
             THEN /\ Len(ledger) < MaxLoopRows
                  /\ \E f \in FilesWith(ledger, pentry.outbox_id) :
                        ledger' = update_entry(ledger, today,
                                               pentry.outbox_id, f, "skipped",
                                               "SecurityError", NULL)
                  /\ pstats' = [pstats EXCEPT !.skipped = @ + 1]
             ELSE IF r.raised # NULL
             THEN /\ pstats' = [pstats EXCEPT !.errors = @ + 1]
                  /\ UNCHANGED ledger
             ELSE UNCHANGED <<ledger, pstats>>
          /\ ppc' = IF r.raised = NULL THEN "update" ELSE "loop"
          /\ pidx' = IF r.raised = NULL THEN pidx ELSE pidx + 1
          /\ pentry' = IF r.raised = NULL THEN pentry ELSE NoEntry
    /\ UNCHANGED <<today, dedupe_cache, uuids, envApply, ctorApply,
                   apply_enabled, pmessages, psend, pdry, msgHasChatId,
                   notPassVars>>

\* The success branch: stats["sent"] and update_entry(status="sent").
PassUpdate ==
    /\ ppc = "update"
    /\ Len(ledger) < MaxLoopRows
    /\ \E f \in FilesWith(ledger, pentry.outbox_id) :
          ledger' = update_entry(ledger, today, pentry.outbox_id, f, "sent",
                                 NULL, lastSend.smtp_response)
    /\ pstats' = [pstats EXCEPT !.sent = @ + 1]
    /\ ppc' = "loop"
    /\ pidx' = pidx + 1
    /\ pentry' = NoEntry
    /\ UNCHANGED <<today, dedupe_cache, uuids, pmessages, psend, pdry,
                   msgHasChatId, senderVars, notPassVars>>

\* return stats
PassReturn ==
    /\ ppc = "loop"
    /\ pidx > Len(pmessages)
    /\ ppc' = "idle"
    /\ pmessages' = <<>>
    /\ pidx' = 1
    /\ UNCHANGED <<pstats, psend, pdry, pentry, msgHasChatId, outboxVars,
                   senderVars, notPassVars>>

\* The process is killed inside the pass: what it held in memory is gone,
\* the ledger keeps the lines written so far.
PassCrash ==
    /\ ppc # "idle"
    /\ ppc' = "idle"
    /\ pmessages' = <<>>
    /\ pidx' = 1
    /\ pentry' = NoEntry
    /\ pstats' = ZeroStats
    /\ UNCHANGED <<psend, pdry, msgHasChatId, outboxVars, senderVars,
                   notPassVars>>

InitPass ==
    /\ ppc = "idle"
    /\ pmessages = <<>>
    /\ pidx = 1
    /\ psend = FALSE
    /\ pdry = FALSE
    /\ pstats = ZeroStats
    /\ pentry = NoEntry
    /\ msgHasChatId = FALSE

\* The store a route/send pass finds, and the two shapes of message dict.
InitLoop ==
    /\ cursors = [s \in Sources |-> NoCursor]
    /\ messages \in {ClassifiedTable(second) : second \in SecondRows}
    /\ ppc = "idle"
    /\ pmessages = <<>>
    /\ pidx = 1
    /\ psend = FALSE
    /\ pdry = FALSE
    /\ pstats = ZeroStats
    /\ pentry = NoEntry
    /\ msgHasChatId \in BOOLEAN

\* rcall and ccall before any call.
NoCall == [fn |-> "none"]

\* ============================================================== classify
\* A text is the sequence of its words, a phrase of KEYWORD_GROUPS the
\* sequence of its words in lower case. Weights and scores are counted in
\* tenths: 1.0 is 10, 0.7 is 7, 0.2 is 2, -1.0 is -10.
MaxWords == 3

Vocabulary ==
    {"developer", "python", "server", "infrastructure", "ml", "helpdesk",
     "remote", "work", "restaurant", "cashier"}

Texts == UNION {[1..n -> Vocabulary] : n \in 0..MaxWords}

\* Some phrases of each group, in the order of the table; automation_high
\* lists "python" and "PYTHON", which lower-case to the same phrase.
KEYWORD_GROUPS ==
    <<[name |-> "tech_core_high", weight |-> 10,
       keywords_en |-> << <<"developer">>, <<"python">> >>],
      [name |-> "automation_high", weight |-> 10,
       keywords_en |-> << <<"python">>, <<"python">> >>],
      [name |-> "devops_high", weight |-> 10,
       keywords_en |-> << <<"server">>, <<"infrastructure">> >>],
      [name |-> "ai_ml_high", weight |-> 10,
       keywords_en |-> << <<"ml">> >>],
      [name |-> "security_high", weight |-> 10,
       keywords_en |-> << <<"security">> >>],
      [name |-> "it_support_mid", weight |-> 7,
       keywords_en |-> << <<"helpdesk">> >>],
      [name |-> "remote_low", weight |-> 2,
       keywords_en |-> << <<"remote">>, <<"remote", "work">> >>],
      [name |-> "negative_nontech", weight |-> 0 - 10,
       keywords_en |-> << <<"restaurant">>, <<"cashier">>,
                          <<"restaurant", "server">> >>]>>

\* re.search(r'\b' + re.escape(keyword) + r'\b', text_lower): the words of
\* the phrase stand in the text one after the other.
Matches(keyword, text) ==
    \E i \in 1..(Len(text) - Len(keyword) + 1) :
        SubSeq(text, i, i + Len(keyword) - 1) = keyword

\* "tech_keyword in phrase.lower()": the keyword is a substring of the
\* phrase. No word of Vocabulary is a proper substring of another, so this
\* is the keyword's words standing in the phrase.
InPhrase(tech_keyword, phrase) == Matches(tech_keyword, phrase)

\* group_matches of one group: its phrases found in the text, in list order.
GroupMatches(group_data, text) ==
    SelectSeq(group_data.keywords_en, LAMBDA keyword : Matches(keyword, text))

RECURSIVE Concat(_)
Concat(seqs) == IF seqs = <<>> THEN <<>> ELSE Head(seqs) \o Concat(Tail(seqs))

RECURSIVE Sum(_)
Sum(numbers) == IF numbers = <<>> THEN 0 ELSE Head(numbers) + Sum(Tail(numbers))

\* The groups with a match, in table order, without the negative group.
MatchedGroups(text) ==
    SelectSeq(KEYWORD_GROUPS,
              LAMBDA g : g.name # "negative_nontech"
                         /\ GroupMatches(g, text) # <<>>)

NegativeGroups(text) ==
    SelectSeq(KEYWORD_GROUPS,
              LAMBDA g : g.name = "negative_nontech"
                         /\ GroupMatches(g, text) # <<>>)

TechGroups ==
    {"tech_core_high", "automation_high", "devops_high", "ai_ml_high",
     "security_high", "it_support_mid"}

\* The remote guardrail switched off.
RemoteGuardrailOff(matched_groups) == FALSE

\* remote_keywords_matched and not tech_keywords_matched
RemoteGuardrail(matched_groups) ==
    /\ "remote_low" \in matched_groups
    /\ matched_groups \cap TechGroups = {}

\* The multi-word phrase check: a multi-word negative phrase holds a matched
\* keyword, and no technical group matched or at most one keyword did.
NegativePhraseGuardrail(negative_matches, matched_keywords, tech) ==
    \E i \in 1..Len(negative_matches), j \in 1..Len(matched_keywords) :
        /\ Len(negative_matches[i]) > 1
        /\ InPhrase(matched_keywords[j], negative_matches[i])
        /\ (~tech \/ Len(matched_keywords) <= 1)

\* A verdict that asks for no score.
IsRelevantAlways(base_score) == 1

\* is_ai_relevant = 1 if base_score >= 0.7 else 0
IsRelevant(base_score) == IF base_score >= 7 THEN 1 ELSE 0

ReasonOf(group_name) ==
    CASE group_name = "tech_core_high" -> "Software/IT development"
      [] group_name = "automation_high" -> "Automation/scripting"
      [] group_name = "devops_high" -> "DevOps/cloud"
      [] group_name = "ai_ml_high" -> "AI/ML"
      [] group_name = "security_high" -> "Security"
      [] group_name = "it_support_mid" -> "IT support"
      [] OTHER -> "Remote work"
classify(text) ==
    LET groups == MatchedGroups(text)
        matched_groups == [i \in 1..Len(groups) |-> groups[i].name]
        group_names == {matched_groups[i] : i \in 1..Len(groups)}
        matched_keywords ==
            Concat([i \in 1..Len(groups) |-> GroupMatches(groups[i], text)])
        weights_applied == [i \in 1..Len(groups) |-> groups[i].weight]
        negative_matches ==
            Concat([i \in 1..Len(NegativeGroups(text)) |->
                       GroupMatches(NegativeGroups(text)[i], text)])
        score_breakdown ==
            [n \in group_names |->
                LET g == CHOOSE g \in {groups[i] : i \in 1..Len(groups)} :
                             g.name = n
                IN g.weight * Len(GroupMatches(g, text))]
        tech == group_names \cap TechGroups # {}
        remote == RemoteGuardrail(group_names)
        phrase == \/ remote
                  \/ /\ negative_matches # <<>>
                     /\ NegativePhraseGuardrail(negative_matches,
                                                matched_keywords, tech)
        guardrail_triggered ==
            phrase \/ (negative_matches # <<>> /\ ~phrase /\ ~tech)
        base_score == IF guardrail_triggered THEN 0 ELSE Sum(weights_applied)
        reasons ==
            LET named == SelectSeq(matched_groups,
                                   LAMBDA n : n # "remote_low" \/ tech)
            IN [i \in 1..Len(named) |-> ReasonOf(named[i])]
    IN IF text = <<>>
       THEN [is_ai_relevant |-> 0, score |-> 0, reasons |-> <<>>,
             metadata |-> [matched_keywords |-> <<>>, matched_groups |-> <<>>,
                           guardrail_triggered |-> FALSE]]
       ELSE [is_ai_relevant |-> IsRelevant(base_score),
             score |-> base_score,
             reasons |-> reasons,
             metadata |-> [matched_keywords |-> matched_keywords,
                           matched_groups |-> matched_groups,
                           weights_applied |-> weights_applied,
                           negative_matches |-> negative_matches,
                           score_breakdown |-> score_breakdown,
                           guardrail_triggered |-> guardrail_triggered]]

\* The call of classify a run makes.
ClassifyCall ==
    /\ ccall = NoCall
    /\ \E text \in Texts :
          ccall' = [fn |-> "classify", text |-> text,
                    result |-> classify(text)]
    /\ UNCHANGED <<rcall, ocall, storeVars, ingestVars, outboxVars,
                   senderVars, passVars, allVars, batchVars, raceVars>>

\* ===================================================== routing functions
\* pick_index: None, or the index given with --pick-email.
NoPick == <<>>
Pick(i) == <<i>>

select_email(emails, pick_index) ==
    IF emails = <<>> THEN [raised |-> NULL, ret |-> NULL]
    ELSE IF Len(emails) = 1 THEN [raised |-> NULL, ret |-> emails[1]]
    ELSE IF pick_index = NoPick THEN [raised |-> NULL, ret |-> NULL]
    ELSE IF pick_index[1] < 0 \/ pick_index[1] >= Len(emails)
    THEN [raised |-> "ValueError", ret |-> NULL]
    ELSE [raised |-> NULL, ret |-> emails[pick_index[1] + 1]]

\* Profile configurations route_message is called with: none, one, two or
\* three profiles, each with its own keyword lists and threshold.
RouteProfileIds == {"p1", "p2", "p3"}

RouteConfigs ==
    [keywords_positive : {{}, {"python"}, {"python", "dev"}},
     keywords_negative : {{}, {"dev"}},
     threshold : {5, 7, 15}]

RouteProfiles ==
    UNION {[ids -> RouteConfigs] : ids \in SUBSET RouteProfileIds}

\* The address lists and indexes select_email is called with.
MaxEmails == 3
SelectAddresses == {"a@x", "b@x", "c@x"}

EmailLists ==
    UNION {[1..n -> SelectAddresses] : n \in 0..MaxEmails}

PickIndexes == {NoPick} \cup {Pick(i) : i \in (0 - 1)..MaxEmails}

notCallVars ==
    <<storeVars, ingestVars, outboxVars, senderVars, passVars, allVars,
      batchVars, raceVars>>

\* The call of a routing function a run makes.
RouteCall ==
    /\ rcall = NoCall
    /\ \E text \in JobTexts, profiles \in RouteProfiles :
          rcall' = [fn |-> "route_message", text |-> text,
                    profiles |-> profiles,
                    result |-> route_message(text, profiles)]
    /\ UNCHANGED <<ccall, ocall, notCallVars>>

SelectCall ==
    /\ rcall = NoCall
    /\ \E emails \in EmailLists, pick_index \in PickIndexes :
          rcall' = [fn |-> "select_email", emails |-> emails,
                    pick_index |-> pick_index,
                    result |-> select_email(emails, pick_index)]
    /\ UNCHANGED <<ccall, ocall, notCallVars>>

InitCalls ==
    /\ rcall = NoCall
    /\ ccall = NoCall
    /\ ocall = NoCall

\* ================================================= reading a damaged ledger
\* Lines of a partition that _append_entry did not write: text that is not
\* JSON (a line cut short), JSON that is not an object (a list, a number,
\* null), and an object with none of the keys of an entry.
BadLines == {[json |-> "malformed"], [json |-> "array"], [json |-> "object"]}

IsEntry(line) == "outbox_id" \in DOMAIN line

\* json.loads(line): JSONDecodeError for text that is not JSON.
json_loads(line) ==
    IF ~IsEntry(line) /\ line.json = "malformed"
    THEN [raised |-> "JSONDecodeError"]
    ELSE [raised |-> NULL, value |-> line]

\* The lines the 'except json.JSONDecodeError: continue' does not skip.
Parsed(led) == SelectSeq(led, LAMBDA line : json_loads(line).raised = NULL)

\* record.get of a value that is no dict raises AttributeError, which
\* neither except clause of the scans catches.
ScanRaises(led) ==
    \E i \in DOMAIN Parsed(led) :
        ~IsEntry(Parsed(led)[i]) /\ Parsed(led)[i].json = "array"

Entries(led) == SelectSeq(led, IsEntry)

\* The objects without keys: record.get answers its default for them.
Unknowns(led) ==
    Len(SelectSeq(led, LAMBDA line : ~IsEntry(line) /\ line.json = "object"))

ReadRaised(kind) == [raised |-> kind, ret |-> NULL]
ReadReturned(ret) == [raised |-> NULL, ret |-> ret]

\* stats of get_statistics: an object without "status" is counted in total
\* and under "unknown".
StatsWithUnknown(stats, n) ==
    IF n = 0 THEN stats
    ELSE [k \in DOMAIN stats \cup {"unknown"} |->
             IF k = "unknown" THEN n
             ELSE IF k = "total" THEN stats[k] + n
             ELSE stats[k]]

ReadFns ==
    {"_load_dedupe_cache", "get_pending_entries", "get_statistics",
     "get_statistics_by_profile"}

\* The four scans over a ledger with such lines.
read_ledger(fn, led) ==
    IF ScanRaises(led) THEN ReadRaised("AttributeError")
    ELSE IF fn = "_load_dedupe_cache"
    THEN ReadReturned(load_dedupe_cache(Entries(led)))
    ELSE IF fn = "get_pending_entries"
    THEN ReadReturned(get_pending_entries(Entries(led)))
    ELSE IF fn = "get_statistics"
    THEN ReadReturned(StatsWithUnknown(get_statistics(Entries(led)),
                                       Unknowns(led)))
    ELSE LET by == get_statistics_by_profile(Entries(led))
             zero == [k \in Statuses \cup {"total"} |-> 0]
         IN ReadReturned(
                [p \in DOMAIN by \cup
                        (IF Unknowns(led) = 0 THEN {} ELSE {"unknown"}) |->
                    IF p = "unknown"
                    THEN StatsWithUnknown(zero, Unknowns(led))
                    ELSE by[p]])

\* The arguments of the create_entry calls that fill the ledger read.
ReadArgs ==
    {a \in CreateArgs : a.profile_id = "p1" /\ a.tg_message_id = 1}

\* create_entry before any read.
ReadCreate(a) ==
    /\ ocall = NoCall
    /\ OutboxCreate(a)

\* A line of the given kind gets into the current partition.
LedgerDamage(line) ==
    /\ ocall = NoCall
    /\ Len(ledger) < MaxRows
    /\ ledger' = Append(ledger, line)
    /\ UNCHANGED <<today, dedupe_cache, uuids, notOutboxVars>>

\* One of the four scans is run over the ledger.
ReadCall(fn) ==
    /\ ocall' = [fn |-> fn, ledger |-> ledger,
                 result |-> read_ledger(fn, ledger)]
    /\ UNCHANGED <<rcall, ccall, notCallVars>>

\* ======================================================== classify_batch
\* CLASSIFIER_VERSION of this release and of a release installed after it.
CLASSIFIER_VERSION == "1.0.0"
LaterVersion == "1.1.0"

\* The texts of the stored messages, as the words classify reads.
BatchTexts == {<<"python">>, <<"restaurant">>}

\* The part of a ClassificationResult the two writes store as verdict.
Verdict(result) ==
    [is_ai_relevant |-> result.is_ai_relevant, score |-> result.score]

Verdicts == {Verdict(classify(t)) : t \in BatchTexts}

\* This release: its version and what its classify answers.
ThisRelease ==
    [version |-> CLASSIFIER_VERSION,
     verdict |-> [t \in BatchTexts |-> Verdict(classify(t))]]

\* telegram_messages after ingest: two messages, both pending.
PendingTable(t1, t2) ==
    [k \in MsgKeys |->
        IF k = <<"s1", 1>> THEN <<NewRow("s1", 1, t1)>>
        ELSE IF k = <<"s2", 1>> THEN <<NewRow("s2", 1, t2)>>
        ELSE <<>>]

\* WHERE 1=1 [AND processed_status = 'pending'] [AND source_id = ?]
PendingRows(tbl, only_source_id, reprocess) ==
    {tbl[k][1] : k \in {x \in DOMAIN tbl :
        /\ Len(tbl[x]) > 0
        /\ reprocess \/ tbl[x][1].processed_status = "pending"
        /\ Truthy(only_source_id) => tbl[x][1].source_id = only_source_id}}

\* fetch_pending_messages with limit=None: the rows in the order of the
\* query, as dicts of the selected columns.
fetch_pending_messages(tbl, only_source_id, reprocess) ==
    LET S == PendingRows(tbl, only_source_id, reprocess)
        q == CHOOSE f \in [1..Cardinality(S) -> S] :
                 \A i, j \in DOMAIN f : i # j => f[i] # f[j]
    IN [i \in DOMAIN q |->
           [source_id |-> q[i].source_id, tg_chat_id |-> q[i].tg_chat_id,
            tg_message_id |-> q[i].tg_message_id, text |-> q[i].text]]

ClassificationRow(source_id, tg_message_id, classifier_version, v) ==
    [source_id |-> source_id, tg_message_id |-> tg_message_id,
     classifier_version |-> classifier_version,
     is_ai_relevant |-> v.is_ai_relevant, score |-> v.score]

\* The rows of the table with the given unique key.
TripleLines(tbl, source_id, tg_message_id, classifier_version) ==
    {i \in DOMAIN tbl : /\ tbl[i].source_id = source_id
                        /\ tbl[i].tg_message_id = tg_message_id
                        /\ tbl[i].classifier_version = classifier_version}

\* The INSERT without its ON CONFLICT clause and without the UNIQUE
\* constraint: one more row on every call.
upsert_message_classification_insert(tbl, sid, mid, version, v) ==
    Append(tbl, ClassificationRow(sid, mid, version, v))

\* INSERT ... ON CONFLICT (source_id, tg_message_id, classifier_version)
\* DO UPDATE SET ...: the row with the key is overwritten where it is, and
\* a key the table does not hold gets a new row.
upsert_message_classification(tbl, sid, mid, version, v) ==
    LET new == ClassificationRow(sid, mid, version, v)
        old == TripleLines(tbl, sid, mid, version)
    IN IF old = {} THEN Append(tbl, new)
       ELSE [i \in DOMAIN tbl |-> IF i \in old THEN new ELSE tbl[i]]

\* mark_message_classified setting the flag to 1 whatever the verdict.
mark_message_classified_relevant(tbl, source_id, tg_message_id, v) ==
    [tbl EXCEPT ![<<source_id, tg_message_id>>] =
        IF Len(@) = 0 THEN @
        ELSE <<[@[1] EXCEPT !.processed_status = "classified",
                            !.is_ai_relevant = 1,
                            !.ai_relevance_score = v.score]>>]

\* UPDATE telegram_messages SET processed_status = 'classified',
\* is_ai_relevant = ?, ai_relevance_score = ? WHERE source_id = ? AND
\* tg_message_id = ?
mark_message_classified(tbl, source_id, tg_message_id, v) ==
    [tbl EXCEPT ![<<source_id, tg_message_id>>] =
        IF Len(@) = 0 THEN @
        ELSE <<[@[1] EXCEPT !.processed_status = "classified",
                            !.is_ai_relevant = v.is_ai_relevant,
                            !.ai_relevance_score = v.score]>>]

ZeroResults ==
    [processed |-> 0, ai_relevant |-> 0, not_relevant |-> 0, errors |-> 0]

NoResult == [score |-> 0 - 1]

\* The counters after a message went through without an exception.
Counted(results, v) ==
    [results EXCEPT
        !.processed = @ + 1,
        !.ai_relevant = @ + (IF v.is_ai_relevant = 1 THEN 1 ELSE 0),
        !.not_relevant = @ + (IF v.is_ai_relevant = 1 THEN 0 ELSE 1)]

notBatchVars ==
    <<cursors, ingestVars, outboxVars, senderVars, passVars, allVars,
      callVars, raceVars>>

\* classify_batch up to its loop.
BatchStart(only_source_id, reprocess, dry_run) ==
    /\ bpc = "idle"
    /\ bmessages' = fetch_pending_messages(messages, only_source_id,
                                           reprocess)
    /\ bidx' = 1
    /\ bdry' = dry_run
    /\ bresults' = ZeroResults
    /\ bresult' = NoResult
    /\ bpc' = "loop"
    /\ UNCHANGED <<messages, classifications, crelease, notBatchVars>>

\* One turn of the loop up to its first write: classify, then, unless the
\* pass is a dry run, upsert_message_classification; fault is the database
\* raising in it.
BatchTurn(fault) ==
    /\ bpc = "loop"
    /\ bidx <= Len(bmessages)
    /\ fault => ~bdry
    /\ LET msg == bmessages[bidx]
           v == crelease.verdict[msg.text]
       IN IF bdry
          THEN /\ bresults' = Counted(bresults, v)
               /\ bidx' = bidx + 1
               /\ UNCHANGED <<classifications, bpc, bresult>>
          ELSE IF fault
          THEN /\ bresults' = [bresults EXCEPT !.errors = @ + 1]
               /\ bidx' = bidx + 1
               /\ UNCHANGED <<classifications, bpc, bresult>>
          ELSE /\ classifications' =
                      upsert_message_classification(
                          classifications, msg.source_id, msg.tg_message_id,
                          crelease.version, v)
               /\ bresult' = v
               /\ bpc' = "mark"
               /\ UNCHANGED <<bresults, bidx>>
    /\ UNCHANGED <<messages, crelease, bmessages, bdry, notBatchVars>>

\* The second write, mark_message_classified, and the counters.
BatchMark(fault) ==
    /\ bpc = "mark"
    /\ LET msg == bmessages[bidx]
       IN IF fault
          THEN /\ bresults' = [bresults EXCEPT !.errors = @ + 1]
               /\ UNCHANGED messages
          ELSE /\ messages' = mark_message_classified(
                                  messages, msg.source_id, msg.tg_message_id,
                                  bresult)
               /\ bresults' = Counted(bresults, bresult)
    /\ bidx' = bidx + 1
    /\ bresult' = NoResult
    /\ bpc' = "loop"
    /\ UNCHANGED <<classifications, crelease, bmessages, bdry, notBatchVars>>

\* return self.results
BatchReturn ==
    /\ bpc = "loop"
    /\ bidx > Len(bmessages)
    /\ bpc' = "idle"
    /\ bmessages' = <<>>
    /\ bidx' = 1
    /\ UNCHANGED <<messages, classifications, crelease, bdry, bresults,
                   bresult, notBatchVars>>

\* The process is killed inside the pass, between the two writes included.
BatchInterrupt ==
    /\ bpc # "idle"
    /\ bpc' = "idle"
    /\ bmessages' = <<>>
    /\ bidx' = 1
    /\ bresults' = ZeroResults
    /\ bresult' = NoResult
    /\ UNCHANGED <<messages, classifications, crelease, bdry, notBatchVars>>

\* Between two passes a release with another CLASSIFIER_VERSION is
\* installed; its classify answers verdict for the stored texts.
BatchUpgrade(verdict) ==
    /\ bpc = "idle"
    /\ crelease.version = CLASSIFIER_VERSION
    /\ crelease' = [version |-> LaterVersion, verdict |-> verdict]
    /\ UNCHANGED <<messages, classifications, bpc, bmessages, bidx, bdry,
                   bresults, bresult, notBatchVars>>

InitBatch ==
    /\ classifications = <<>>
    /\ crelease = ThisRelease
    /\ bpc = "idle"
    /\ bmessages = <<>>
    /\ bidx = 1
    /\ bdry = FALSE
    /\ bresults = ZeroResults
    /\ bresult = NoResult

\* =================================== two processes in the route/send pass
\* Two processes run process_pending_sends with send mode on, no dry run
\* and APPLY_ENABLED=true against the same outbox directory: each has its
\* own OutboxManager, whose dedupe_cache is loaded once when it is built,
\* and its own EmailSender; the partitions of the ledger are shared.
Procs == {1, 2}

notRaceVars ==
    <<storeVars, ingestVars, passVars, allVars, callVars, batchVars, today,
      dedupe_cache, envApply, ctorApply, apply_enabled, sent_count, lastSend,
      lastDelay, sessions>>

\* The pass of process p up to its loop.
RaceStart(p) ==
    /\ qpc[p] = "idle"
    /\ qcache' = [qcache EXCEPT ![p] = load_dedupe_cache(ledger)]
    /\ qmessages' = [qmessages EXCEPT ![p] =
                        IF msgHasChatId THEN LoopMessages(messages)
                        ELSE fetch_ai_relevant_messages(messages)]
    /\ qidx' = [qidx EXCEPT ![p] = 1]
    /\ qsent' = [qsent EXCEPT ![p] = 0]
    /\ qpc' = [qpc EXCEPT ![p] = "loop"]
    /\ UNCHANGED <<ledger, uuids, transport_log, qentry, notRaceVars>>

\* One turn of the loop of process p up to the send.
RaceTurn(p) ==
    /\ qpc[p] = "loop"
    /\ qidx[p] <= Len(qmessages[p])
    /\ LET t == Turn(qmessages[p][qidx[p]], qcache[p])
           c == create_entry(ledger, qcache[p], uuids, today, t.args)
       IN /\ t.create => Len(ledger) < MaxLoopRows
          /\ IF t.create
             THEN /\ ledger' = c.ledger
                  /\ qcache' = [qcache EXCEPT ![p] = c.cache]
                  /\ uuids' = uuids + 1
             ELSE UNCHANGED <<ledger, qcache, uuids>>
          /\ qentry' = [qentry EXCEPT ![p] =
                           IF t.draft THEN c.entry ELSE NoEntry]
          /\ qpc' = [qpc EXCEPT ![p] = IF t.draft THEN "send" ELSE "loop"]
          /\ qidx' = [qidx EXCEPT ![p] = IF t.draft THEN @ ELSE @ + 1]
    /\ UNCHANGED <<transport_log, qmessages, qsent, notRaceVars>>

\* sender.send_email of process p for its draft and the update_entry that
\* follows it.
RaceSend(p, smtp_ok) ==
    /\ qpc[p] = "send"
    /\ LET r == send_email(TRUE, qsent[p], MaxPerRun, FALSE, "pdf", smtp_ok)
       IN /\ qsent' = [qsent EXCEPT ![p] = r.sent_count]
          /\ transport_log' =
                 IF r.transport
                 THEN Append(transport_log,
                             [to |-> qentry[p].selected_email,
                              dedupe_key |-> qentry[p].dedupe_key,
                              proc |-> p])
                 ELSE transport_log
          /\ IF r.raised = "SecurityError"
             THEN /\ Len(ledger) < MaxLoopRows
                  /\ \E f \in FilesWith(ledger, qentry[p].outbox_id) :
                        ledger' = update_entry(ledger, today,
                                               qentry[p].outbox_id, f,
                                               "skipped", "SecurityError",
                                               NULL)
             ELSE IF r.raised # NULL THEN UNCHANGED ledger
             ELSE /\ Len(ledger) < MaxLoopRows
                  /\ \E f \in FilesWith(ledger, qentry[p].outbox_id) :
                        ledger' = update_entry(ledger, today,
                                               qentry[p].outbox_id, f, "sent",
                                               NULL, r.smtp_response)
    /\ qpc' = [qpc EXCEPT ![p] = "loop"]
    /\ qidx' = [qidx EXCEPT ![p] = @ + 1]
    /\ qentry' = [qentry EXCEPT ![p] = NoEntry]
    /\ UNCHANGED <<uuids, qcache, qmessages, notRaceVars>>

\* return stats: the process ends.
RaceReturn(p) ==
    /\ qpc[p] = "loop"
    /\ qidx[p] > Len(qmessages[p])
    /\ qpc' = [qpc EXCEPT ![p] = "done"]
    /\ UNCHANGED <<ledger, uuids, transport_log, qcache, qmessages, qidx,
                   qentry, qsent, notRaceVars>>

InitRace ==
    /\ qpc = [p \in Procs |-> "idle"]
    /\ qcache = [p \in Procs |-> {}]
    /\ qmessages = [p \in Procs |-> <<>>]
    /\ qidx = [p \in Procs |-> 1]
    /\ qentry = [p \in Procs |-> NoEntry]
    /\ qsent = [p \in Procs |-> 0]

\* ======================================================= specifications
\* Every component as constructed, over an empty store.
Init ==
    /\ InitStore /\ InitIngest /\ InitOutbox /\ InitSender /\ InitPass
    /\ InitAll /\ InitCalls /\ InitBatch /\ InitRace

\* The same over a store of classified messages.
InitRoute ==
    /\ InitLoop /\ InitIngest /\ InitOutbox /\ InitSender
    /\ InitAll /\ InitCalls /\ InitBatch /\ InitRace

\* The same over a store of ingested messages no classify pass has read.
InitPending ==
    /\ cursors = [s \in Sources |-> NoCursor]
    /\ messages \in {PendingTable(t1, t2) : t1, t2 \in BatchTexts}
    /\ InitIngest /\ InitOutbox /\ InitSender /\ InitPass
    /\ InitAll /\ InitCalls /\ InitBatch /\ InitRace

NextIngest ==
    \/ \E s \in Sources, dry \in BOOLEAN : IngestFetch(s, dry)
    \/ \E s \in Sources, dry \in BOOLEAN : IngestEmpty(s, dry)
    \/ \E s \in Sources, dry \in BOOLEAN, e \in Exceptions :
          IngestRaise(s, dry, e)
    \/ \E fault \in BOOLEAN : IngestMessage(fault)
    \/ IngestFinish
    \/ IngestInterrupt

SpecIngest == Init /\ [][NextIngest]_vars

NextIngestAll ==
    \/ \E dry_run \in BOOLEAN, only_source \in {NULL} \cup Sources :
          AllStart(dry_run, only_source)
    \/ AllFetch
    \/ AllEmpty
    \/ \E e \in Exceptions : AllRaise(e)
    \/ \E fault \in BOOLEAN : AllMessage(fault)
    \/ AllFinish
    \/ AllReturn

SpecIngestAll == Init /\ [][NextIngestAll]_vars

\* update_entry as process_pending_sends calls it: 'sent' with the SMTP
\* response, 'failed' and 'skipped' with the error text.
UpdateArgs ==
    {[status |-> "sent", last_error |-> NULL, smtp_response |-> "{}"],
     [status |-> "failed", last_error |-> "error", smtp_response |-> NULL],
     [status |-> "skipped", last_error |-> "error", smtp_response |-> NULL]}

NextOutbox ==
    \/ \E a \in CreateArgs : OutboxCreate(a)
    \/ \E id \in 1..MaxRows, u \in UpdateArgs :
          OutboxUpdate(id, u.status, u.last_error, u.smtp_response)
    \/ \E id \in 1..MaxRows : OutboxUpdateMissing(id)
    \/ \E day \in Days : OutboxRestart(day)

SpecOutbox == Init /\ [][NextOutbox]_vars

NextSender ==
    \/ \E param \in {"None", "True", "False"}, env \in {NoEnv} \cup
           {EnvSet(v) : v \in EnvValues} : SenderConstruct(param, env)
    \/ \E dry_run \in BOOLEAN, cv \in CvStates, smtp_ok \in BOOLEAN :
          SenderSend("a@x", dry_run, cv, smtp_ok)

SpecSender == Init /\ [][NextSender]_vars

NextLoop ==
    \/ \E send_mode \in BOOLEAN, dry_run \in BOOLEAN, day \in Days,
          env \in PassEnvs : PassStart(send_mode, dry_run, day, env)
    \/ PassTurn
    \/ \E cv \in CvStates, smtp_ok \in BOOLEAN : PassSend(cv, smtp_ok)
    \/ PassUpdate
    \/ PassReturn
    \/ PassCrash

SpecLoop == InitRoute /\ [][NextLoop]_vars

NextRoute ==
    \/ RouteCall
    \/ SelectCall

SpecRoute == Init /\ [][NextRoute]_vars

NextClassify == ClassifyCall

NextRead ==
    \/ \E a \in ReadArgs : ReadCreate(a)
    \/ \E line \in BadLines : LedgerDamage(line)
    \/ \E fn \in ReadFns : ReadCall(fn)

SpecRead == Init /\ [][NextRead]_vars

NextBatch ==
    \/ \E only_source_id \in {NULL, "s1"}, reprocess \in BOOLEAN,
          dry_run \in BOOLEAN :
          BatchStart(only_source_id, reprocess, dry_run)
    \/ \E fault \in BOOLEAN : BatchTurn(fault)
    \/ \E fault \in BOOLEAN : BatchMark(fault)
    \/ BatchReturn
    \/ BatchInterrupt
    \/ \E verdict \in [BatchTexts -> Verdicts] : BatchUpgrade(verdict)

SpecBatch == InitPending /\ [][NextBatch]_vars

NextRace ==
    \/ \E p \in Procs : RaceStart(p)
    \/ \E p \in Procs : RaceTurn(p)
    \/ \E p \in Procs, smtp_ok \in BOOLEAN : RaceSend(p, smtp_ok)
    \/ \E p \in Procs : RaceReturn(p)

SpecRace == InitRoute /\ [][NextRace]_vars

SpecClassify == Init /\ [][NextClassify]_vars

\* ================================================================ claims

\* C3: for every source the cursor's last_message_id never decreases over
\* any sequence of ingest_source passes, those that end in a rate-limit
\* error or another exception and those that fetch nothing included.
C3_CursorMonotone ==
    [][\A s \in Sources :
          cursors[s].found =>
              /\ cursors'[s].found
              /\ cursors'[s].last_message_id >= cursors[s].last_message_id]_vars

\* C4: insert_message_if_new is idempotent on (source_id, message_id): no
\* key ever holds two rows, and an insert of a stored key that the database
\* answers returns False, leaves the table as it was and is counted by
\* ingest_source as skipped, not as an error.
C4_InsertIdempotent ==
    /\ [](\A k \in MsgKeys : Len(messages[k]) <= 1)
    /\ [][(/\ ipc = "loop"
           /\ iidx' = iidx + 1
           /\ ilastInsert'.called
           /\ ~ilastInsert'.raised
           /\ KeyStored(messages, isrc, ibatch[iidx].id))
          => (/\ ~ilastInsert'.ret
              /\ messages' = messages
              /\ iresult'.skipped = iresult.skipped + 1
              /\ iresult'.errors = iresult.errors
              /\ iresult'.new_inserted = iresult.new_inserted)]_vars

\* C4 witness: an insert of a stored key has just returned False, for a
\* message whose text differs from the stored row's, and was counted as
\* skipped.
C4_Witness ==
    /\ ipc = "loop"
    /\ iidx > 1
    /\ ilastInsert.called
    /\ ~ilastInsert.raised
    /\ ~ilastInsert.ret
    /\ iresult.skipped > 0
    /\ Len(messages[<<isrc, ibatch[iidx - 1].id>>]) = 1
    /\ messages[<<isrc, ibatch[iidx - 1].id>>][1].text
           # sanitize_text(ibatch[iidx - 1].text)

\* C5: when the insert of a message of the batch raises, the cursor written
\* at the end of the pass stays below the id of every message that failed
\* to persist.
C5_WatermarkOnlyStored ==
    [][(/\ ipc = "loop"
        /\ ipc' = "idle"
        /\ ~idry)
       => \A f \in ifailed :
              ~KeyStored(messages', isrc, f) =>
                  ~(/\ cursors'[isrc].found
                    /\ cursors'[isrc].last_message_id >= f)]_vars

\* C6: within a pass the cursor is written only after every insert of the
\* batch has been attempted, and after no step is the persisted watermark
\* greater than the id of a fetched text message that is not stored.
C6_NoWatermarkPastUnstored ==
    [][/\ (ipc = "loop" /\ cursors' # cursors) => iidx > Len(ibatch)
       /\ (ipc = "loop" /\ ~idry) =>
              \A k \in 1..Len(ibatch) :
                  (/\ ibatch[k].text # ""
                   /\ ~KeyStored(messages', isrc, ibatch[k].id))
                  => ~(/\ cursors'[isrc].found
                       /\ cursors'[isrc].last_message_id > ibatch[k].id)]_vars

\* C7: the dedupe index only grows: it holds the key of every ledger row of
\* every partition, and a key once in it is in it after every later
\* create_entry, update_entry (to sent, failed or skipped) and restart, so
\* is_duplicate stays true.
C7_DedupeIndexOnlyGrows ==
    /\ [](\A r \in RowsOf(ledger) :
              r.dedupe_key # NoKey => is_duplicate(dedupe_cache, r.dedupe_key))
    /\ [][\A k \in dedupe_cache : is_duplicate(dedupe_cache', k)]_vars

\* C7 witness: a manager constructed on the second day holds the key of an
\* entry that was moved to 'sent' in the first day's partition.
C7_Witness ==
    /\ today = 2
    /\ \E r \in RowsOf(ledger) :
          /\ r.status = "sent"
          /\ r.file = 1
          /\ r.dedupe_key # NoKey
          /\ is_duplicate(dedupe_cache, r.dedupe_key)

\* C8: no two ledger entries with distinct outbox_id carry the same non-null
\* dedupe_key.
C8_DedupeKeyUnique ==
    \A i, j \in 1..Len(ledger) :
        (/\ ledger[i].dedupe_key # NoKey
         /\ ledger[i].outbox_id # ledger[j].outbox_id)
        => ledger[i].dedupe_key # ledger[j].dedupe_key

\* C10: the ledger is append-only: a step leaves every existing row where
\* and as it was and adds at most one row; create_entry adds exactly one,
\* under an outbox_id no row carried before, and update_entry adds one under
\* an outbox_id the ledger already held.
C10_LedgerAppendOnly ==
    [][/\ Len(ledger') \in {Len(ledger), Len(ledger) + 1}
       /\ \A k \in 1..Len(ledger) : ledger'[k] = ledger[k]
       /\ uuids' # uuids =>
              /\ Len(ledger') = Len(ledger) + 1
              /\ \A k \in 1..Len(ledger) :
                     ledger[k].outbox_id # ledger'[Len(ledger')].outbox_id
       /\ (uuids' = uuids /\ Len(ledger') = Len(ledger) + 1) =>
              \E k \in 1..Len(ledger) :
                  ledger[k].outbox_id = ledger'[Len(ledger')].outbox_id]_vars

\* C10 witness: a created entry, a second version of it appended by
\* update_entry, and a later create_entry under another id.
C10_Witness ==
    /\ Len(ledger) = 3
    /\ ledger[2].outbox_id = ledger[1].outbox_id
    /\ ledger[2].status = "sent"
    /\ ledger[1].status = "draft"
    /\ ledger[3].outbox_id # ledger[1].outbox_id

\* --------------------------------------------------------------------- C1
\* C1: over any number of route/send passes, restarts and kills between the
\* transport call and update_entry included, a dedupe key has at most one
\* draft (one send attempt), at most one SMTP session and at most one 'sent'
\* row; and every key the ledger holds is in the dedupe cache, so a later
\* attempt for it finds is_duplicate true.
KeyRows(led, dedupe_key, status) ==
    {i \in 1..Len(led) :
        led[i].dedupe_key = dedupe_key /\ led[i].status = status}

C2_ApplyGate ==
    /\ apply_enabled =>
          \/ ctorApply = "True"
          \/ envApply.set /\ Lower(envApply.value) = STR_true
    /\ (ctorApply = "None" /\ ~envApply.set) => ~apply_enabled
    /\ lastSend.called =>
          /\ lastSend.transport => (apply_enabled /\ ~lastSend.dry_run)
          /\ (~apply_enabled /\ ~lastSend.dry_run) =>
                (lastSend.raised = "SecurityError" /\ ~lastSend.transport)

\* C2 witness: a sender built from a setting that is not written 'true'
\* letter for letter has opened an SMTP session.
C2_Witness ==
    /\ ctorApply = "None"
    /\ envApply.set
    /\ envApply.value # STR_true
    /\ lastSend.called
    /\ lastSend.transport

\* C2 as stated: apply_enabled is true only if it was passed as true or the
\* APPLY_ENABLED setting is present and equals 'true'.
C2_ExactTrueOnly ==
    apply_enabled =>
        \/ ctorApply = "True"
        \/ envApply.set /\ envApply.value = STR_true

\* --------------------------------------------------------------------- C9
\* C9: a loop turn over a message with a single extracted address whose
\* (chat_id, message_id, email) key already has a ledger row appends one
\* entry with status 'skipped' and skip_reason 'duplicate' under a fresh
\* outbox_id, with no rendered subject, and leaves the sender and the
\* transport untouched.
TurnTaken ==
    /\ ppc = "loop"
    /\ pidx <= Len(pmessages)
    /\ ppc' \in {"loop", "send"}
    /\ pidx' = pidx + 1 \/ ppc' = "send"

TurnKey ==
    DedupeKey(ChatOf(pmessages[pidx].source_id),
              pmessages[pidx].tg_message_id,
              extract_emails(pmessages[pidx].text)[1])

TerminalStatuses == {"sent", "failed", "skipped"}

C11_TerminalStatuses ==
    [][\A k \in (Len(ledger) + 1)..Len(ledger') :
          \A i \in 1..(k - 1) :
             (/\ ledger'[i].outbox_id = ledger'[k].outbox_id
              /\ ledger'[i].status \in TerminalStatuses)
             => ledger'[k].status = ledger'[i].status]_vars

\* -------------------------------------------------------------------- C12
\* C12: after k update_entry calls on an outbox_id its newest version has
\* attempt_count = k: the versions of an id count 0, 1, 2, ... in ledger
\* order.
VersionLines(led, outbox_id) ==
    {i \in 1..Len(led) : led[i].outbox_id = outbox_id}

LatestVersion(led, outbox_id) == led[Max(VersionLines(led, outbox_id))]

C12_AttemptCountCounts ==
    \A r \in RowsOf(ledger) :
        LatestVersion(ledger, r.outbox_id).attempt_count
            = Cardinality(VersionLines(ledger, r.outbox_id)) - 1

\* -------------------------------------------------------------------- C13
\* C13: the aggregate reads see one record per outbox_id, its last version:
\* no id whose latest version is sent, failed or skipped is returned as
\* pending, and total and the status counters, overall and per profile,
\* count each outbox_id once by its latest status.
OutboxIds(led) == {r.outbox_id : r \in RowsOf(led)}

IdsByLatest(led, ids, status) ==
    {id \in ids : LatestVersion(led, id).status = status}

IdsOfProfile(led, profile_id) ==
    {id \in OutboxIds(led) : LatestVersion(led, id).profile_id = profile_id}

C13_ReadsReduced ==
    /\ \A k \in DOMAIN get_pending_entries(ledger) :
          LatestVersion(ledger, get_pending_entries(ledger)[k].outbox_id).status
              \notin TerminalStatuses
    /\ get_statistics(ledger)["total"] = Cardinality(OutboxIds(ledger))
    /\ \A st \in Statuses :
          get_statistics(ledger)[st]
              = Cardinality(IdsByLatest(ledger, OutboxIds(ledger), st))
    /\ \A p \in DOMAIN get_statistics_by_profile(ledger) :
          /\ get_statistics_by_profile(ledger)[p]["total"]
                 = Cardinality(IdsOfProfile(ledger, p))
          /\ \A st \in Statuses :
                get_statistics_by_profile(ledger)[p][st]
                    = Cardinality(IdsByLatest(ledger, IdsOfProfile(ledger, p),
                                              st))

\* -------------------------------------------------------------------- C14
\* C14: a created entry (attempt_count 0) is 'draft' exactly when it has a
\* selected email and a profile, and otherwise 'skipped' with the supplied
\* reason or 'no_email_found'; its dedupe_key is the (chat_id, message_id,
\* selected_email) key when an email was selected and null otherwise.
C14_DraftIffEmailAndProfile ==
    \A r \in RowsOf(ledger) :
        r.attempt_count = 0 =>
           /\ r.status = "draft"
                 <=> (r.selected_email # NULL /\ r.profile_id # NULL)
           /\ r.status # "draft" =>
                 (r.status = "skipped"
                  /\ r.skip_reason \in {"duplicate", "no_email_found"})
           /\ r.dedupe_key =
                 IF r.selected_email # NULL
                 THEN DedupeKey(r.tg_chat_id, r.tg_message_id,
                                r.selected_email)
                 ELSE NoKey

\* -------------------------------------------------------------------- C15
\* C15: when the pass leaves a message whose entry the SMTP session was
\* opened for, the latest version of that entry is 'sent' if the send
\* succeeded and 'failed' with the error recorded if it did not; it is not
\* left 'draft'.
TransportInvokedFor(log, entry) ==
    \E k \in DOMAIN log : log[k].dedupe_key = entry.dedupe_key

SendStep ==
    /\ lastSend'.called
    /\ lastSend' # lastSend \/ transport_log' # transport_log

C16_RateLimit ==
    /\ [](sent_count <= MaxPerRun)
    /\ [][SendStep =>
            /\ transport_log' # transport_log => sent_count < MaxPerRun
            /\ (sent_count >= MaxPerRun /\ ~lastSend'.dry_run) =>
                  /\ lastSend'.raised = "SecurityError"
                  /\ transport_log' = transport_log
                  /\ sent_count' = sent_count]_vars

\* C16 witness: an enabled sender with a valid CV that has used up
\* max_per_run was asked for one more real send and the rate gate raised.
C16_Witness ==
    /\ sent_count = MaxPerRun
    /\ Len(transport_log) >= MaxPerRun
    /\ lastSend.called
    /\ ~lastSend.dry_run
    /\ lastSend.gate = 3
    /\ lastSend.raised = "SecurityError"

\* -------------------------------------------------------------------- C17
\* C17: a dry-run send_email never opens the SMTP session nor changes
\* sent_count, still raises when the CV is missing or not a PDF, and still
\* raises when sent_count has reached max_per_run.
C17_DryRunKeepsGates ==
    [][(SendStep /\ lastSend'.dry_run) =>
          /\ transport_log' = transport_log
          /\ sent_count' = sent_count
          /\ lastSend'.cv # "pdf" => lastSend'.raised = "SecurityError"
          /\ sent_count >= MaxPerRun => lastSend'.raised = "SecurityError"]_vars

\* -------------------------------------------------------------------- C18
\* C18: an SMTP session of a sender is opened only if time.sleep ran after
\* the session that sender opened before it, whether that one succeeded or
\* failed.
C18_DelayAfterEverySend ==
    [][(SendStep /\ transport_log' # transport_log) => lastDelay # "due"]_vars

FinishStep ==
    /\ ipc = "loop"
    /\ ipc' = "idle"
    /\ ~idry
    /\ iresult'.high_water_mark # NoMark

\* The highest message id stored for a source, 0 if none is.
MaxStoredId(tbl, source_id) ==
    Max({0} \cup {i \in 1..MaxMsgId : KeyStored(tbl, source_id, i)})

FloodStep(e) ==
    /\ e.type = "FloodWaitError"
    /\ ipc = "idle"
    /\ ipc' = "idle"
    /\ iresult'.error_message = ErrorText(e)

\* C21 (amended): on FloodWaitError ingest_source fetches nothing more and
\* stores nothing, re-raises the error to its caller and, unless the pass is
\* a dry run, leaves the source's cursor with status 'failed' and the
\* retry-after seconds in its error; a dry run leaves the cursors as they
\* were.
C21_FloodFailsAndReraises ==
    [][\A e \in Exceptions :
          FloodStep(e) =>
             /\ iend' = "raised"
             /\ ibatch' = <<>>
             /\ iresult'.fetched = 0
             /\ messages' = messages
             /\ IF idry'
                THEN cursors' = cursors
                ELSE /\ cursors'[isrc'] # NoCursor
                     /\ cursors'[isrc'].last_status = "failed"
                     /\ cursors'[isrc'].last_error = ErrorText(e)]_vars

\* C21 witness: a pass that writes has met a rate limit of 60 seconds: the
\* error went to the caller and the cursor of the source says so.
C21_Witness ==
    /\ iend = "raised"
    /\ ~idry
    /\ cursors[isrc] # NoCursor
    /\ cursors[isrc].last_status = "failed"
    /\ cursors[isrc].last_error = "FloodWaitError: 60s"
    /\ \E k \in MsgKeys : k[1] = isrc /\ messages[k] # <<>>

\* C21 as stated: every pass that meets FloodWaitError, a dry run included,
\* records status 'failed' with the retry-after seconds in the source's
\* cursor and re-raises.
C21_FloodAlwaysRecorded ==
    [][\A e \in Exceptions :
          FloodStep(e) =>
             /\ iend' = "raised"
             /\ cursors'[isrc'] # NoCursor
             /\ cursors'[isrc'].last_status = "failed"
             /\ cursors'[isrc'].last_error = ErrorText(e)]_vars

\* -------------------------------------------------------------------- C22
\* C22: a failing item never ends a pass. In ingest_source a message whose
\* insert raises is counted in errors and the loop goes on to the next
\* message; in ingest_all a source whose ingest_source fails before its
\* loop, a rate limit included, gets its result appended and the loop goes
\* on to the next source.
C22_FailureNeverAborts ==
    [][/\ (apc = "source" /\ iresult'.errors > iresult.errors)
            => (apc' = "source" /\ iidx' = iidx + 1)
       /\ (/\ apc = "loop"
           /\ aqueue # <<>>
           /\ ipc' = "idle"
           /\ iresult'.error_message # NULL)
            => /\ apc' = "loop"
               /\ aqueue' = Tail(aqueue)
               /\ Len(aresults') = Len(aresults) + 1]_vars

\* -------------------------------------------------------------------- C23
\* The step that ends a dry-run pass over a batch.
DryFinishStep ==
    /\ ipc = "loop"
    /\ ipc' = "idle"
    /\ idry
    /\ iend' = "returned"

\* The ids a pass that writes would fetch from the source in this state.
RealFetchIds == FetchIds(isrc, ReadCursorId(isrc, FALSE))

\* C23: a dry-run pass writes no message row and no cursor, and reports
\* the counters a pass that writes would report in the same state: as many
\* fetched, and, where both see the same messages, as new those with text
\* that the store does not hold and as skipped the others.
C23_DryRunCountsAsReal ==
    [][DryFinishStep =>
          /\ UNCHANGED storeVars
          /\ iresult'.fetched = Cardinality(RealFetchIds)
          /\ (RealFetchIds = {ibatch[k].id : k \in 1..Len(ibatch)}) =>
                LET new == {k \in 1..Len(ibatch) :
                              /\ ibatch[k].text # ""
                              /\ ~KeyStored(messages, isrc, ibatch[k].id)}
                IN /\ iresult'.new_inserted = Cardinality(new)
                   /\ iresult'.skipped = Len(ibatch) - Cardinality(new)]_vars

\* -------------------------------------------------------------------- C24
\* The candidates: the profiles whose score is at least their own threshold.
Candidates(text, profiles) ==
    {pid \in DOMAIN profiles :
        score_profile(text, profiles[pid]) >= profiles[pid].threshold}

\* The two highest candidate scores differ by less than 0.1.
TopTwoClose(text, profiles) ==
    \E p, q \in Candidates(text, profiles) :
        /\ p # q
        /\ \A r \in Candidates(text, profiles) :
              score_profile(text, profiles[r])
                  <= score_profile(text, profiles[p])
        /\ \A r \in Candidates(text, profiles) \ {p} :
              score_profile(text, profiles[r])
                  <= score_profile(text, profiles[q])
        /\ score_profile(text, profiles[p])
               - score_profile(text, profiles[q]) < 1

\* C24: route_message follows the decision table over the candidates: none
\* gives no profile and 'no_match'; one candidate wins; two or more give
\* 'tie_close' when the two highest scores differ by less than 0.1 and the
\* highest-scoring candidate otherwise.
C24_DecisionTable ==
    rcall.fn = "route_message" =>
        LET cand == Candidates(rcall.text, rcall.profiles)
            res == rcall.result
        IN /\ res.raised = NULL
           /\ cand = {} =>
                 res.profile_id = NULL /\ res.skip_reason = "no_match"
           /\ Cardinality(cand) = 1 =>
                 res.profile_id \in cand /\ res.skip_reason = NULL
           /\ Cardinality(cand) >= 2 =>
                 IF TopTwoClose(rcall.text, rcall.profiles)
                 THEN res.profile_id = NULL /\ res.skip_reason = "tie_close"
                 ELSE /\ res.skip_reason = NULL
                      /\ res.profile_id \in cand
                      /\ \A r \in cand :
                            score_profile(rcall.text, rcall.profiles[r])
                              <= score_profile(rcall.text,
                                               rcall.profiles[res.profile_id])

\* -------------------------------------------------------------------- C25
\* C25, select_email: no address gives None, two or more addresses without
\* a pick index give None, and an index outside the list of two or more
\* addresses raises ValueError.
C25_SelectEmail ==
    rcall.fn = "select_email" =>
        LET n == Len(rcall.emails)
            res == rcall.result
        IN /\ n = 0 => res = [raised |-> NULL, ret |-> NULL]
           /\ (n >= 2 /\ rcall.pick_index = NoPick) =>
                 res = [raised |-> NULL, ret |-> NULL]
           /\ (/\ n >= 2
               /\ rcall.pick_index # NoPick
               /\ (rcall.pick_index[1] < 0 \/ rcall.pick_index[1] >= n)) =>
                 res.raised = "ValueError"

\* C25, the pass: a loop turn over a routed message with two or more
\* distinct addresses appends an entry with no selected email, no dedupe
\* key, status 'skipped' and skip_reason 'multiple_emails_ambiguous', and
\* leaves the sender and the transport untouched.
C25_AmbiguousEmailsSkipped ==
    [][(/\ TurnTaken
        /\ route_message(pmessages[pidx].text, Profiles).skip_reason = NULL
        /\ Len(extract_emails(pmessages[pidx].text)) >= 2)
       => /\ Len(ledger') = Len(ledger) + 1
          /\ ledger'[Len(ledger')].selected_email = NULL
          /\ ledger'[Len(ledger')].dedupe_key = NoKey
          /\ ledger'[Len(ledger')].status = "skipped"
          /\ ledger'[Len(ledger')].skip_reason = "multiple_emails_ambiguous"
          /\ UNCHANGED senderVars]_vars

\* -------------------------------------------------------------------- C26
\* The phrases of a group that stand in the text.
MatchedPhrases(group_data, text) ==
    {group_data.keywords_en[k] : k \in
        {k \in 1..Len(group_data.keywords_en) :
            Matches(group_data.keywords_en[k], text)}}

\* The names of the positive groups with a phrase in the text.
PositiveGroups(text) ==
    {KEYWORD_GROUPS[i].name : i \in
        {i \in 1..Len(KEYWORD_GROUPS) :
            /\ KEYWORD_GROUPS[i].name # "negative_nontech"
            /\ MatchedPhrases(KEYWORD_GROUPS[i], text) # {}}}

\* The phrases of the negative group that stand in the text.
NegativePhrases(text) ==
    UNION {MatchedPhrases(KEYWORD_GROUPS[i], text) : i \in
              {i \in 1..Len(KEYWORD_GROUPS) :
                  KEYWORD_GROUPS[i].name = "negative_nontech"}}

\* C26: a text whose only matched positive group is remote_low is
\* classified non-relevant with score 0 and guardrail_triggered set.
C26_RemoteAloneNotRelevant ==
    (ccall.fn = "classify" /\ PositiveGroups(ccall.text) = {"remote_low"})
    => /\ ccall.result.is_ai_relevant = 0
       /\ ccall.result.score = 0
       /\ ccall.result.metadata.guardrail_triggered = TRUE

\* C26 witness: "remote work" has been classified, with no other phrase in
\* the text: the remote group is recorded as matched and the score is 0.
C26_Witness ==
    /\ ccall.fn = "classify"
    /\ ccall.text = <<"remote", "work">>
    /\ ccall.result.metadata.matched_groups = <<"remote_low">>
    /\ ccall.result.metadata.negative_matches = <<>>
    /\ ccall.result.score = 0
    /\ ccall.result.metadata.guardrail_triggered = TRUE

\* -------------------------------------------------------------------- C27
\* A matched multi-word negative phrase holds a positively matched phrase.
NegativeHoldsPositive(text) ==
    \E n \in NegativePhrases(text) :
        /\ Len(n) > 1
        /\ \E i \in 1..Len(KEYWORD_GROUPS) :
              /\ KEYWORD_GROUPS[i].name # "negative_nontech"
              /\ \E k \in MatchedPhrases(KEYWORD_GROUPS[i], text) :
                    InPhrase(k, n)

\* C27: when a matched multi-word negative phrase holds a positively
\* matched phrase, the text is forced non-relevant (score 0, guardrail set)
\* if fewer than two positive groups matched, and no guardrail fires if two
\* or more did.
C27_NegativePhraseOverride ==
    (ccall.fn = "classify" /\ NegativeHoldsPositive(ccall.text))
    => IF Cardinality(PositiveGroups(ccall.text)) < 2
       THEN /\ ccall.result.is_ai_relevant = 0
            /\ ccall.result.score = 0
            /\ ccall.result.metadata.guardrail_triggered = TRUE
       ELSE ccall.result.metadata.guardrail_triggered = FALSE

\* -------------------------------------------------------------------- C28
\* C28: a text with a negative_nontech match and no match in a technical
\* group is classified non-relevant, whatever remote_low matches.
C28_NegativeWithoutTech ==
    (/\ ccall.fn = "classify"
     /\ NegativePhrases(ccall.text) # {}
     /\ PositiveGroups(ccall.text) \cap TechGroups = {})
    => /\ ccall.result.is_ai_relevant = 0
       /\ ccall.result.score = 0

\* C28 witness: a text with a negative phrase and a remote phrase and no
\* technical phrase has been classified non-relevant.
C28_Witness ==
    /\ ccall.fn = "classify"
    /\ ccall.text = <<"remote", "work", "cashier">>
    /\ ccall.result.metadata.matched_groups = <<"remote_low">>
    /\ ccall.result.metadata.negative_matches = << <<"cashier">> >>
    /\ ccall.result.is_ai_relevant = 0

\* -------------------------------------------------------------------- C29
\* weight times the number of distinct matched phrases, over the positive
\* groups.
PhraseScore(text) ==
    Sum([i \in 1..Len(KEYWORD_GROUPS) |->
            IF KEYWORD_GROUPS[i].name = "negative_nontech" THEN 0
            ELSE KEYWORD_GROUPS[i].weight
                 * Cardinality(MatchedPhrases(KEYWORD_GROUPS[i], text))])

\* C29: when no guardrail fires the score is the sum over the positive
\* groups of weight times the number of distinct matched phrases, and the
\* verdict is relevant exactly when the score is at least 0.7.
C29_ScoreSumsPhrases ==
    (ccall.fn = "classify" /\ ccall.text # <<>>
     /\ ~ccall.result.metadata.guardrail_triggered)
    => /\ ccall.result.score = PhraseScore(ccall.text)
       /\ ccall.result.is_ai_relevant = 1 <=> ccall.result.score >= 7

\* -------------------------------------------------------------------- C30
\* The text without a word.
Without(text, word) == SelectSeq(text, LAMBDA w : w # word)

\* C30: negative matches are kept apart from the positive ones and, for a
\* text with a technical match and no guardrail, each matched negative
\* phrase lowers the score below that of the same text without it.
C30_NegativeLowersScore ==
    (/\ ccall.fn = "classify"
     /\ PositiveGroups(ccall.text) \cap TechGroups # {}
     /\ ~ccall.result.metadata.guardrail_triggered)
    => \A n \in NegativePhrases(ccall.text) :
          /\ \E k \in 1..Len(ccall.result.metadata.negative_matches) :
                ccall.result.metadata.negative_matches[k] = n
          /\ \A k \in 1..Len(ccall.result.metadata.matched_keywords) :
                ccall.result.metadata.matched_keywords[k] # n
          /\ Len(n) = 1 =>
                ccall.result.score < classify(Without(ccall.text, n[1])).score

\* -------------------------------------------------------------------- C33
\* C33: a loop turn over a dict built by fetch_ai_relevant_messages whose
\* text routes to one profile and holds one address, and whose
\* chat_id:message_id:email key the dedupe cache does not hold, appends an
\* entry with status 'draft', that address and that key, and adds one to
\* stats["processed"] and nothing to stats["errors"].
C33_SingleEmailDrafted ==
    [][(/\ TurnTaken
        /\ pmessages[pidx] \in RowsOf(fetch_ai_relevant_messages(messages))
        /\ route_message(pmessages[pidx].text, Profiles).skip_reason = NULL
        /\ Len(extract_emails(pmessages[pidx].text)) = 1
        /\ ~is_duplicate(dedupe_cache, TurnKey))
       => /\ Len(ledger') = Len(ledger) + 1
          /\ ledger'[Len(ledger')].status = "draft"
          /\ ledger'[Len(ledger')].selected_email =
                 extract_emails(pmessages[pidx].text)[1]
          /\ ledger'[Len(ledger')].dedupe_key = TurnKey
          /\ ledger'[Len(ledger')].dedupe_key # NoKey
          /\ pstats'.processed = pstats.processed + 1
          /\ pstats'.errors = pstats.errors]_vars

\* -------------------------------------------------------------------- C37
\* C37: the SMTP sessions one EmailSender opens, those that fail and those
\* that succeed together, never number more than max_per_run.
C37_SessionsWithinMax == sessions <= MaxPerRun

StoredRow(msg) == messages[<<msg.source_id, msg.tg_message_id>>]

ScoreOf(pid) == score_profile(rcall.text, rcall.profiles[pid])

TopTwoEqual(cand) ==
    \E p, q \in cand :
        /\ p # q
        /\ ScoreOf(p) = ScoreOf(q)
        /\ \A r \in cand : ScoreOf(r) <= ScoreOf(p)

DraftIds(led) == IdsByLatest(led, OutboxIds(led), "draft")

C32_BadRowsSkipped ==
    ocall.fn \in ReadFns =>
        /\ ocall.result.raised = NULL
        /\ ocall.result = read_ledger(ocall.fn, Entries(ocall.ledger))

\* -------------------------------------------------------------------- C31
\* C31: after any sequence of classify passes, reprocess passes included,
\* message_classifications holds at most one row per (source_id,
\* message_id, classifier_version); a write for a triple the table holds
\* overwrites that row where it is and changes no other row; a write under
\* a classifier version the message has no row for adds one row and leaves
\* the rows of the other versions as they were.
UpsertStep == bpc = "loop" /\ bpc' = "mark"

UpsertLines ==
    TripleLines(classifications, bmessages[bidx].source_id,
                bmessages[bidx].tg_message_id, crelease.version)

UpsertRow ==
    ClassificationRow(bmessages[bidx].source_id,
                      bmessages[bidx].tg_message_id, crelease.version,
                      crelease.verdict[bmessages[bidx].text])

C31_OneRecordPerTriple ==
    /\ [](\A i, j \in DOMAIN classifications :
             (/\ classifications[i].source_id = classifications[j].source_id
              /\ classifications[i].tg_message_id
                     = classifications[j].tg_message_id
              /\ classifications[i].classifier_version
                     = classifications[j].classifier_version) => i = j)
    /\ [][UpsertStep =>
            IF UpsertLines # {}
            THEN /\ Len(classifications') = Len(classifications)
                 /\ \A i \in DOMAIN classifications :
                       classifications'[i] =
                           IF i \in UpsertLines THEN UpsertRow
                           ELSE classifications[i]
            ELSE /\ Len(classifications') = Len(classifications) + 1
                 /\ SubSeq(classifications', 1, Len(classifications))
                        = classifications
                 /\ classifications'[Len(classifications')] = UpsertRow]_vars
    /\ [][~UpsertStep => classifications' = classifications]_vars

\* C31 witness: a message classified under both versions with different
\* verdicts, its first record still in the table beside the second, during
\* a reprocess pass that has just overwritten the second.
C31_Witness ==
    /\ bpc = "mark"
    /\ crelease.version = LaterVersion
    /\ bmessages[bidx].source_id = "s1"
    /\ \E i, j \in DOMAIN classifications :
          /\ classifications[i].source_id = "s1"
          /\ classifications[j].source_id = "s1"
          /\ classifications[i].classifier_version = CLASSIFIER_VERSION
          /\ classifications[j].classifier_version = LaterVersion
          /\ classifications[i].is_ai_relevant
                 # classifications[j].is_ai_relevant
    /\ messages[<<"s1", 1>>][1].processed_status = "classified"
    /\ messages[<<"s1", 1>>][1].is_ai_relevant = bresult.is_ai_relevant

\* -------------------------------------------------------------------- C36
\* The messages whose processed_status is 'classified'.
ClassifiedKeys ==
    {k \in MsgKeys :
        Len(messages[k]) = 1 /\ messages[k][1].processed_status = "classified"}

\* A record of the message under the given version that carries the
\* message's flag and score.
RecordAgrees(k, version) ==
    \E i \in DOMAIN classifications :
        /\ classifications[i].source_id = k[1]
        /\ classifications[i].tg_message_id = k[2]
        /\ classifications[i].classifier_version = version
        /\ classifications[i].is_ai_relevant = messages[k][1].is_ai_relevant
        /\ classifications[i].score = messages[k][1].ai_relevance_score

StatusOnlyForward ==
    [][\A k \in MsgKeys :
          (Len(messages[k]) = 1 /\ Len(messages'[k]) = 1) =>
             \/ messages'[k][1].processed_status
                    = messages[k][1].processed_status
             \/ /\ messages[k][1].processed_status = "pending"
                /\ messages'[k][1].processed_status = "classified"]_vars

====
